---- MODULE Spec2Model ----
(***************************************************************************)
(* Atmospheric post-processing of the wbmvar repository.                   *)
(*                                                                         *)
(* Part I  (Spec): the host side, the A-Frame components                   *)
(*   atmospheric-post-processing (the compositor) and                      *)
(*   update-atmosphere-uniforms, driven by the frame loop                  *)
(*   tick -> scene render -> tock and by the asynchronous shader load.     *)
(*   World coordinates are taken on one axis, so that distances and        *)
(*   normalisation are exact integers.                                     *)
(*                                                                         *)
(* Part II (SpecShader): the fragment shader's routines                    *)
(*   raySphereIntersect, densityAtPoint, opticalDepth,                     *)
(*   calculateLightInteraction and main.                                   *)
(***************************************************************************)
EXTENDS Integers, Sequences, FiniteSets, TLC

(***************************************************************************)
(* Bounds of the model.                                                    *)
(***************************************************************************)
\* largest number of planet-atmosphere elements in the document
MaxPlanets == 2
\* world coordinates of the camera and of the planet centres: -MaxCoord..MaxCoord
MaxCoord == 1

Coord == (-MaxCoord)..MaxCoord
\* positions of a sun (planet-atmosphere.sunPosition, the #sun entity)
SunPositions == {-1, 2}

Abs(x) == IF x < 0 THEN -x ELSE x
\* THREE.Vector3.normalize on one axis: the zero vector stays zero
normalize(x) == IF x > 0 THEN 1 ELSE IF x < 0 THEN -1 ELSE 0
\* THREE.Vector3.distanceTo on one axis
distanceTo(p, q) == Abs(p - q)

(***************************************************************************)
(* Numbers.  A float is modelled by an exact rational                      *)
(* <<numerator, denominator>> in lowest terms with a positive denominator, *)
(* a vec3 by a triple of them.  sqrt is taken of squares of rationals      *)
(* only: the inputs of the routines are drawn so that every root is exact. *)
(***************************************************************************)
RECURSIVE gcd(_, _)
gcd(a, b) == IF b = 0 THEN a ELSE gcd(b, a % b)

\* the pairs that stand for numbers
Q == Int \X Int

rat[n \in Int, d \in Int] ==
    LET g == gcd(Abs(n), Abs(d))
    IN IF d < 0 THEN <<(-n) \div g, (-d) \div g>> ELSE <<n \div g, d \div g>>

float[n \in Int] == <<n, 1>>
neg[x \in Q] == <<-x[1], x[2]>>
add[x \in Q, y \in Q] ==
    LET l == (x[2] \div gcd(x[2], y[2])) * y[2]
    IN rat[x[1] * (l \div x[2]) + y[1] * (l \div y[2]), l]
sub[x \in Q, y \in Q] == add[x, neg[y]]
mul[x \in Q, y \in Q] ==
    LET g1 == gcd(Abs(x[1]), y[2])
        g2 == gcd(Abs(y[1]), x[2])
    IN rat[(x[1] \div g1) * (y[1] \div g2), (x[2] \div g2) * (y[2] \div g1)]
div[x \in Q, y \in Q] == mul[x, rat[y[2], y[1]]]
lt[x \in Q, y \in Q] == x[1] * y[2] < y[1] * x[2]
le[x \in Q, y \in Q] == x[1] * y[2] <= y[1] * x[2]
sign[x \in Q] == IF x[1] > 0 THEN 1 ELSE IF x[1] < 0 THEN -1 ELSE 0

\* the integer square root, by bisection
RECURSIVE isqrtIn(_, _, _)
isqrtIn(n, lo, hi) ==
    IF lo >= hi THEN lo
    ELSE LET mid == (lo + hi + 1) \div 2
         IN IF mid * mid <= n THEN isqrtIn(n, mid, hi) ELSE isqrtIn(n, lo, mid - 1)
isqrt[n \in Int] == isqrtIn(n, 0, IF n < 256 THEN 15 ELSE IF n < 65536 THEN 255 ELSE 46340)
isSquare[x \in Q] ==
    x[1] >= 0 /\ isqrt[x[1]] * isqrt[x[1]] = x[1] /\ isqrt[x[2]] * isqrt[x[2]] = x[2]
sqrt[x \in Q] == <<isqrt[x[1]], isqrt[x[2]]>>

vec3(x, y, z) == <<float[x], float[y], float[z]>>
vadd(u, v) == <<add[u[1], v[1]], add[u[2], v[2]], add[u[3], v[3]]>>
vsub(u, v) == <<sub[u[1], v[1]], sub[u[2], v[2]], sub[u[3], v[3]]>>
vscale(u, k) == <<mul[u[1], k], mul[u[2], k], mul[u[3], k]>>
dot(u, v) == add[add[mul[u[1], v[1]], mul[u[2], v[2]]], mul[u[3], v[3]]]
length(u) == sqrt[dot(u, u)]

\* Math.pow with a whole exponent
RECURSIVE pow(_, _)
pow(x, e) == IF e = 0 THEN float[1] ELSE mul[x, pow(x, e - 1)]


(***************************************************************************)
(* Part I: state.                                                          *)
(***************************************************************************)
VARIABLES
    hasLoaded,                \* scene.hasLoaded
    inited,                   \* atmospheric-post-processing.init has run
    listening,                \* the 'loaded' listener of init is registered
    dom,                      \* data of the [planet-atmosphere] elements, document order
    sunEntity,                \* <<position>> of the #sun entity, << >> when there is none
    cameraPos,                \* world position of scene.camera
    planets,                  \* this.planets
    depthRenderTarget,        \* this.depthRenderTarget exists (is not null)
    renderTarget,             \* this.renderTarget exists (is not null)
    postProcessingMaterials,  \* this.postProcessingMaterials
    ortho,                    \* this.quad, this.orthoScene, this.orthoCamera exist
    quadMaterial,             \* this.quad.material: 0 (null) or an index of postProcessingMaterials
    fetchPending,             \* the Promise.all of the two shader fetches is unsettled
    uau,                      \* update-atmosphere-uniforms: how it is attached, its depth target
    rTarget,                  \* the renderer's active render target ("screen" is null)
    image,                    \* what each render target holds
    phase,                    \* position in the frame loop
    ticked,                   \* components whose tick has run in this frame
    frameLog,                 \* the renders completed in this frame, in order
    lastRun                   \* the last run of a handler that renders: which one, the
                              \* renderer's target, the camera and the number of
                              \* materials at its entry, and how it was left

(***************************************************************************)
(* Part III: state of the configuration and of the component's lifetime.   *)
(***************************************************************************)
VARIABLES
    removed,                  \* atmospheric-post-processing.remove has run
    disposed,                 \* the targets and the materials whose dispose() was called
    viewport,                 \* renderer.getSize(): the size of the drawing buffer
    targetSize,               \* the size the two render targets were created with
    waveLenghts,              \* this.waveLenghts, in nm; << >> before init
    scatteringStrength,       \* this.scatteringStrength; << >> before init
    scatterCoefficients,      \* this.scatterCoefficients, the one Vector3 that every
                              \* material's uScatterCoefficients refers to
    gui,                      \* atmosphere-gui: this.params, << >> before its setup
    allocations               \* how each creation of the render targets by setup ended

confVars == <<removed, disposed, viewport, targetSize, waveLenghts,
              scatteringStrength, scatterCoefficients, gui, allocations>>

(***************************************************************************)
(* Part V: the other programs of the repository.  The file watcher         *)
(* (watch-files.js) that regenerates the listing of the HTML files.        *)
(***************************************************************************)
VARIABLES
    clock,                    \* the time in ms since the watcher was started
    folders,                  \* the folders that exist below watchDir, as paths
    watched,                  \* the folders that have an fs.watch watcher
    debounceTimer,            \* debounceTimer: 0 (null) or the handle of the last timer
    timers,                   \* the pending timers: handle and time of expiry
    events,                   \* the times of the watch events that passed the filter
    regenerations,            \* the times at which regenerateListing was started
    dirty                     \* an HTML file of a listed folder changed after the
                              \* start of the last regeneration

\* animation-trigger (animation-trigger.js): one entity with the component
VARIABLES
    animTrigger               \* << >> before init; then the component's fields
                              \* (this.*), what it has set on its element (the
                              \* animation-mixer attribute, the clickable class,
                              \* the hitbox elements, the raycast of the mesh)
                              \* and its pending timeouts

\* a-cursor-teleport (a-cursor-navigation.js v1.2 and part_006 v2.0) with the
\* meshes under the cursor's ray and the mouse
VARIABLES
    teleport                  \* << >> before init; then the component's fields, the
                              \* meshes that the ray of the cursor crosses, nearest
                              \* first, and the state of the mouse gesture

\* the anim component of part_007 with the mixers it has made
VARIABLES
    anim                      \* << >> before init; then the data of the component,
                              \* the variables of the closure of its model-loaded
                              \* listener, the mixers with their actions and
                              \* listeners, and the pending timeouts

watchVars == <<clock, folders, watched, debounceTimer, timers, events,
               regenerations, dirty>>

appVars == <<watchVars, animTrigger, teleport, anim>>

hostVars == <<hasLoaded, inited, listening, dom, sunEntity, cameraPos, planets,
              depthRenderTarget, renderTarget, postProcessingMaterials, ortho,
              quadMaterial, fetchPending, uau, rTarget, image, phase, ticked,
              frameLog, lastRun, confVars, appVars>>

(***************************************************************************)
(* Part II: state.  A behaviour of the shader is one invocation of one of  *)
(* its routines: the routine, its arguments and uniforms, what it returned.*)
(***************************************************************************)
VARIABLES shaderCall

NoCall == [fn |-> "none", in |-> <<>>, out |-> <<>>]

Targets == {"screen", "depthRT", "colorRT", "uauDepthRT"}

NoRun == [handler |-> "none", how |-> "none", entryTarget |-> "screen", camera |-> 0, n |-> 0]

EmptyImage == [scene |-> FALSE, passes |-> <<>>]

\* renderer.render(scene.object3D, camera) into target t: a fresh scene image
SceneRender(img, t) == [img EXCEPT ![t] = [scene |-> TRUE, passes |-> <<>>]]

\* renderer.render(orthoScene, orthoCamera) into target t with a material that
\* samples the texture of target src: the source image with body b applied on top
QuadRender(img, t, src, b) ==
    [img EXCEPT ![t] = [scene |-> img[src].scene, passes |-> Append(img[src].passes, b)]]

\* the planet-atmosphere schema's defaults of planetRadius and atmosphereRadius
Elements ==
    [center : Coord, sunPosition : SunPositions, planetRadius : {20},
     atmosphereRadius : {26}]

DomConfigs == UNION { [1..n -> Elements] : n \in 0..MaxPlanets }

\* sizes of the drawing buffer
Viewports == {1, 2}

NothingDisposed == [depthRenderTarget |-> FALSE, renderTarget |-> FALSE, materials |-> {}]

\* the configuration and the lifetime before atmospheric-post-processing.init
InitConf ==
    /\ removed = FALSE
    /\ disposed = NothingDisposed
    /\ viewport = 1
    /\ targetSize = 0
    /\ waveLenghts = <<>>
    /\ scatteringStrength = <<>>
    /\ scatterCoefficients = <<>>
    /\ gui = <<>>
    /\ allocations = <<>>

\* the file watcher before it is started
IdleWatcher ==
    /\ clock = 0
    /\ folders = {}
    /\ watched = {}
    /\ debounceTimer = 0
    /\ timers = {}
    /\ events = <<>>
    /\ regenerations = <<>>
    /\ dirty = FALSE

\* none of the other programs is running
InitApps ==
    /\ IdleWatcher
    /\ animTrigger = <<>>
    /\ teleport = <<>>
    /\ anim = <<>>

Init ==
    /\ hasLoaded \in BOOLEAN
    /\ inited = FALSE
    /\ listening = FALSE
    /\ dom \in DomConfigs
    /\ \A i \in 1..Len(dom) : dom[i].sunPosition = dom[1].sunPosition
    /\ sunEntity \in {<<>>} \cup {<<p>> : p \in SunPositions}
    /\ cameraPos \in Coord
    /\ planets = <<>>
    /\ depthRenderTarget = FALSE
    /\ renderTarget = FALSE
    /\ postProcessingMaterials = <<>>
    /\ ortho = [quad |-> FALSE, scene |-> FALSE, camera |-> FALSE]
    /\ quadMaterial = 0
    /\ fetchPending = FALSE
    /\ uau \in [mode : {"absent", "noTarget", "active"}, depthRenderTarget : {FALSE}]
    /\ rTarget = "screen"
    /\ image = [t \in Targets |-> EmptyImage]
    /\ phase = "idle"
    /\ ticked = {}
    /\ frameLog = <<>>
    /\ lastRun = NoRun
    /\ InitConf
    /\ InitApps
    /\ shaderCall = NoCall


(***************************************************************************)
(* Part I: set-up and the asynchronous shader load.                        *)
(***************************************************************************)
\* findPlanets: one entry per [planet-atmosphere] element, copies of its data
findPlanets(d) ==
    [i \in 1..Len(d) |->
       [position |-> d[i].center, atmosphereRadius |-> d[i].atmosphereRadius,
        planetRadius |-> d[i].planetRadius, sunPosition |-> d[i].sunPosition]]

\* the three scatter coefficients setup computes
setupCoefficientsCubed(w, strength) ==
    <<mul[pow(rat[400, w[1]], 3), strength], mul[pow(rat[400, w[2]], 3), strength],
      mul[pow(rat[400, w[3]], 3), strength]>>
setupCoefficients(w, strength) ==
    LET scatterR == mul[pow(rat[400, w[1]], 4), strength]
        scatterG == mul[pow(rat[400, w[2]], 4), strength]
        scatterB == mul[pow(rat[400, w[3]], 4), strength]
    IN <<scatterR, scatterG, scatterB>>

\* how a creation of the two render targets can end: both exist; the constructor
\* of the depth target or the one of the color target throws; both objects exist
\* and the storage behind them could not be allocated
AllocOutcomes == {"ok", "depthThrows", "colorThrows", "noStorage"}

\* setup with the wavelengths w and the strength of the component: the planets,
\* the depth target, the coefficients, the color target, and the shader fetch is
\* started; a constructor that throws ends it there
setup(alloc, w, strength) ==
    /\ planets' = planets \o findPlanets(dom)
    /\ allocations' = Append(allocations, alloc)
    /\ depthRenderTarget' = IF alloc = "depthThrows" THEN depthRenderTarget ELSE TRUE
    /\ targetSize' = IF alloc = "depthThrows" THEN targetSize ELSE viewport
    /\ scatterCoefficients' = IF alloc = "depthThrows" THEN scatterCoefficients
                              ELSE setupCoefficients(w, strength)
    /\ renderTarget' = IF alloc \in {"depthThrows", "colorThrows"} THEN renderTarget
                       ELSE TRUE
    /\ fetchPending' = IF alloc \in {"depthThrows", "colorThrows"} THEN fetchPending
                       ELSE TRUE

\* init: the fields are reset; setup runs now when the scene has loaded, and on
\* the scene's 'loaded' event otherwise
init(alloc) ==
    /\ ~inited
    /\ phase = "idle"
    /\ inited' = TRUE
    /\ postProcessingMaterials' = <<>>
    /\ waveLenghts' = <<700, 530, 440>>
    /\ scatteringStrength' = float[1]
    /\ IF hasLoaded
       THEN setup(alloc, <<700, 530, 440>>, float[1]) /\ listening' = FALSE
       ELSE /\ alloc = "ok"
            /\ listening' = TRUE
            /\ planets' = <<>>
            /\ depthRenderTarget' = FALSE
            /\ renderTarget' = FALSE
            /\ UNCHANGED <<fetchPending, targetSize, scatterCoefficients, allocations>>
    /\ UNCHANGED <<hasLoaded, dom, sunEntity, cameraPos, ortho, quadMaterial, uau,
                   rTarget, image, phase, ticked, frameLog, lastRun,
                   removed, disposed, viewport, gui,
                   shaderCall, appVars>>

\* the scene's 'loaded' event: the listener of init, when registered, runs setup
loaded(alloc) ==
    /\ ~hasLoaded
    /\ phase = "idle"
    /\ hasLoaded' = TRUE
    /\ IF listening
       THEN setup(alloc, waveLenghts, scatteringStrength) /\ listening' = FALSE
       ELSE /\ alloc = "ok"
            /\ UNCHANGED <<planets, depthRenderTarget, renderTarget, fetchPending,
                           listening, targetSize, scatterCoefficients, allocations>>
    /\ UNCHANGED <<inited, dom, sunEntity, cameraPos, postProcessingMaterials, ortho,
                   quadMaterial, uau, rTarget, image, phase, ticked, frameLog,
                   lastRun,
                   removed, disposed, viewport, waveLenghts, scatteringStrength, gui,
                   shaderCall, appVars>>

\* the value of uScatterCoefficients in a material the load callback creates:
\* this.scatterCoefficients, the object and not a copy of it.  setup alone
\* assigns that field, before any material exists, and atmosphere-gui writes
\* into the object and into every material at once, so that a material's value
\* is the value of the object at every moment
coefficientsOfSetup == setupCoefficients(<<700, 530, 440>>, float[1])
coefficientsOfComponent == scatterCoefficients

\* the material the load callback creates for planet i
newMaterial(i) ==
    [planet |-> i, tDiffuse |-> "none", tDepth |-> "depthRT",
     uCameraPos |-> 0, uLightDir |-> 0, uPlanetRadius |-> planets[i].planetRadius,
     uPlanetCenter |-> planets[i].position,
     upAtmosphereRadius |-> planets[i].atmosphereRadius, upDensityFalloff |-> 4,
     uScatterCoefficients |-> coefficientsOfComponent]

\* what the load callback leaves in this.quad, this.orthoScene, this.orthoCamera
loadedOrthoLater == [quad |-> FALSE, scene |-> FALSE, camera |-> FALSE]
loadedOrtho == [quad |-> TRUE, scene |-> TRUE, camera |-> TRUE]

\* the then-callback of the shader load: one material per planet, then the quad,
\* the ortho scene and the ortho camera; it runs to completion between two frames
shadersLoaded ==
    /\ fetchPending
    /\ phase = "idle"
    /\ fetchPending' = FALSE
    /\ postProcessingMaterials' =
           postProcessingMaterials \o [i \in 1..Len(planets) |-> newMaterial(i)]
    /\ ortho' = loadedOrtho
    /\ quadMaterial' = 0
    /\ UNCHANGED <<hasLoaded, inited, listening, dom, sunEntity, cameraPos, planets,
                   depthRenderTarget, renderTarget, uau, rTarget, image, phase, ticked,
                   frameLog, lastRun,
                   confVars, shaderCall, appVars>>

\* a fetch rejects: Promise.all rejects and the then-callback never runs
shadersFailed ==
    /\ fetchPending
    /\ phase = "idle"
    /\ fetchPending' = FALSE
    /\ UNCHANGED <<hasLoaded, inited, listening, dom, sunEntity, cameraPos, planets,
                   depthRenderTarget, renderTarget, postProcessingMaterials, ortho,
                   quadMaterial, uau, rTarget, image, phase, ticked, frameLog,
                   lastRun,
                   confVars, shaderCall, appVars>>

\* update-atmosphere-uniforms: the 'renderstart' listener creates its depth target
renderstart ==
    /\ uau.mode # "absent"
    /\ ~uau.depthRenderTarget
    /\ hasLoaded
    /\ phase = "idle"
    /\ uau' = [uau EXCEPT !.depthRenderTarget = TRUE]
    /\ UNCHANGED <<hasLoaded, inited, listening, dom, sunEntity, cameraPos, planets,
                   depthRenderTarget, renderTarget, postProcessingMaterials, ortho,
                   quadMaterial, fetchPending, rTarget, image, phase, ticked, frameLog,
                   lastRun,
                   confVars, shaderCall, appVars>>

\* the camera moves between two frames
moveCamera ==
    /\ phase = "idle"
    /\ \E p \in Coord \ {cameraPos} : cameraPos' = p
    /\ UNCHANGED <<hasLoaded, inited, listening, dom, sunEntity, planets,
                   depthRenderTarget, renderTarget, postProcessingMaterials, ortho,
                   quadMaterial, fetchPending, uau, rTarget, image, phase, ticked,
                   frameLog, lastRun,
                   confVars, shaderCall, appVars>>


(***************************************************************************)
(* Part I: the frame loop.  One frame is: the components' tick handlers,   *)
(* the scene render of the framework, the components' tock handlers.  An   *)
(* exception that leaves a handler ends the frame loop (phase "aborted").  *)
(***************************************************************************)
beginFrame ==
    /\ phase = "idle"
    /\ hasLoaded
    /\ inited
    /\ ~removed
    /\ phase' = "tick"
    /\ ticked' = {}
    /\ frameLog' = <<>>
    /\ lastRun' = NoRun
    /\ UNCHANGED <<hasLoaded, inited, listening, dom, sunEntity, cameraPos, planets,
                   depthRenderTarget, renderTarget, postProcessingMaterials, ortho,
                   quadMaterial, fetchPending, uau, rTarget, image,
                   confVars, shaderCall, appVars>>

\* the early return of the compositor's tick and tock
neverSkips(materials) == FALSE
noBodies(materials) == Len(materials) = 0

\* atmospheric-post-processing.tick: the per-frame uniforms of every material
tick ==
    /\ phase = "tick"
    /\ "comp" \notin ticked
    /\ ticked' = ticked \cup {"comp"}
    /\ IF noBodies(postProcessingMaterials)
       THEN UNCHANGED postProcessingMaterials
       ELSE postProcessingMaterials' =
              [i \in 1..Len(postProcessingMaterials) |->
                 LET m == postProcessingMaterials[i]
                 IN [m EXCEPT !.uCameraPos = cameraPos,
                              !.uLightDir = normalize(planets[m.planet].sunPosition),
                              !.uPlanetCenter = planets[m.planet].position]]
    /\ UNCHANGED <<hasLoaded, inited, listening, dom, sunEntity, cameraPos, planets,
                   depthRenderTarget, renderTarget, ortho, quadMaterial, fetchPending,
                   uau, rTarget, image, phase, frameLog, lastRun,
                   confVars, shaderCall, appVars>>

\* update-atmosphere-uniforms.tick: the early returns, then the depth capture
\* into its own target with the renderer's target put back, then the sun position
\* written to every planet element.  fails: the scene render throws.
uauTick(fails) ==
    /\ phase = "tick"
    /\ uau.mode # "absent"
    /\ "uau" \notin ticked
    /\ ticked' = ticked \cup {"uau"}
    /\ IF uau.mode # "active" \/ ~uau.depthRenderTarget
       THEN /\ ~fails
            /\ UNCHANGED <<rTarget, image, frameLog, dom, phase, lastRun>>
       ELSE LET currentRenderTarget == rTarget
                run == [handler |-> "uauTick", how |-> "return",
                        entryTarget |-> rTarget, camera |-> cameraPos,
                        n |-> Len(postProcessingMaterials)]
            IN IF fails
               THEN /\ rTarget' = "uauDepthRT"
                    /\ lastRun' = [run EXCEPT !.how = "throw"]
                    /\ phase' = "aborted"
                    /\ UNCHANGED <<image, frameLog, dom>>
               ELSE /\ image' = SceneRender(image, "uauDepthRT")
                    /\ frameLog' = Append(frameLog,
                           [by |-> "uau", op |-> "scene", target |-> "uauDepthRT",
                            body |-> 0, src |-> "none"])
                    /\ rTarget' = currentRenderTarget
                    /\ lastRun' = run
                    /\ dom' = IF sunEntity = <<>> THEN dom
                              ELSE [i \in 1..Len(dom) |->
                                      [dom[i] EXCEPT !.sunPosition = sunEntity[1]]]
                    /\ UNCHANGED phase
    /\ UNCHANGED <<hasLoaded, inited, listening, sunEntity, cameraPos, planets,
                   depthRenderTarget, renderTarget, postProcessingMaterials, ortho,
                   quadMaterial, fetchPending, uau,
                   confVars, shaderCall, appVars>>

\* the framework's render of the scene into the renderer's active target
sceneRender ==
    /\ phase = "tick"
    /\ ticked = {"comp"} \cup (IF uau.mode = "absent" THEN {} ELSE {"uau"})
    /\ phase' = "tock"
    /\ image' = SceneRender(image, rTarget)
    /\ frameLog' = Append(frameLog,
           [by |-> "aframe", op |-> "scene", target |-> rTarget,
            body |-> 0, src |-> "none"])
    /\ UNCHANGED <<hasLoaded, inited, listening, dom, sunEntity, cameraPos, planets,
                   depthRenderTarget, renderTarget, postProcessingMaterials, ortho,
                   quadMaterial, fetchPending, uau, rTarget, ticked, lastRun,
                   confVars, shaderCall, appVars>>


(***************************************************************************)
(* Part I: the compositor's tock.                                          *)
(***************************************************************************)
\* the comparator of the sort, on two indices of postProcessingMaterials
compareNearFirst(a, b) ==
    distanceTo(cameraPos, planets[postProcessingMaterials[a].planet].position)
      - distanceTo(cameraPos, planets[postProcessingMaterials[b].planet].position)
compare(a, b) ==
    LET distA == distanceTo(cameraPos, planets[postProcessingMaterials[a].planet].position)
        distB == distanceTo(cameraPos, planets[postProcessingMaterials[b].planet].position)
    IN distB - distA

\* Array.prototype.sort is stable: x goes behind every element it does not precede
RECURSIVE insertSorted(_, _)
insertSorted(sorted, x) ==
    IF sorted = <<>> THEN <<x>>
    ELSE IF compare(Head(sorted), x) > 0
         THEN <<x>> \o sorted
         ELSE <<Head(sorted)>> \o insertSorted(Tail(sorted), x)

RECURSIVE sortPrefix(_)
sortPrefix(n) == IF n = 0 THEN <<>> ELSE insertSorted(sortPrefix(n - 1), n)

\* [...this.postProcessingMaterials].sort(...): the indices of the materials, sorted
sortedMaterials == sortPrefix(Len(postProcessingMaterials))

\* the source texture of the pass after one that sampled currentSource and wrote
\* output: currentSource is assigned once, before the loop, and not in it
sourceAfterPass(currentSource, output) == currentSource

\* the state a run of tock threads through its statements
tockEntry ==
    [img |-> image, mats |-> postProcessingMaterials, quadMat |-> quadMaterial,
     log |-> frameLog, target |-> rTarget, src |-> "none", exit |-> "return"]

\* sortedMaterials.forEach: pass i of the chain and the passes behind it.
\* failAt is the position of the pass whose render throws (0: none does).
RECURSIVE forEachPass(_, _, _, _)
forEachPass(order, i, st, failAt) ==
    IF i > Len(order) THEN st
    ELSE LET m == order[i]
             s1 == [st EXCEPT !.mats[m].tDiffuse = st.src]
         IN IF ~ortho.quad
            THEN [s1 EXCEPT !.exit = "typeerror"]
            ELSE LET s2 == [s1 EXCEPT !.quadMat = m, !.target = "screen"]
                 IN IF i = failAt
                    THEN [s2 EXCEPT !.exit = "throw"]
                    ELSE forEachPass(order, i + 1,
                           [s2 EXCEPT
                              !.img = QuadRender(s2.img, "screen", s2.src,
                                                 s2.mats[m].planet),
                              !.log = Append(s2.log,
                                        [by |-> "comp", op |-> "quad",
                                         target |-> "screen",
                                         body |-> s2.mats[m].planet,
                                         src |-> s2.src]),
                              !.src = sourceAfterPass(s2.src, "screen")],
                           failAt)

\* the statements of tock behind its early return, the forEach visiting the
\* materials of order.  throwAt numbers the render
\* that throws: 1 the depth capture, 2 the scene render into the color target,
\* 2 + i pass i of the chain, 0 none.
tockRunOver(order, throwAt) ==
    LET currentRenderTarget == rTarget
        depthT == IF depthRenderTarget THEN "depthRT" ELSE "screen"
        colorT == IF renderTarget THEN "colorRT" ELSE "screen"
        s0 == tockEntry
        s1 == [s0 EXCEPT !.target = depthT]
        s2 == [s1 EXCEPT !.img = SceneRender(s1.img, depthT),
                         !.log = Append(s1.log,
                                   [by |-> "comp", op |-> "scene", target |-> depthT,
                                    body |-> 0, src |-> "none"]),
                         !.target = colorT]
        s3 == [s2 EXCEPT !.img = SceneRender(s2.img, colorT),
                         !.log = Append(s2.log,
                                   [by |-> "comp", op |-> "scene", target |-> colorT,
                                    body |-> 0, src |-> "none"]),
                         !.src = "colorRT"]
        s4 == forEachPass(order, 1, s3, IF throwAt > 2 THEN throwAt - 2 ELSE 0)
    IN IF throwAt = 1 THEN [s1 EXCEPT !.exit = "throw"]
       ELSE IF throwAt = 2 THEN [s2 EXCEPT !.exit = "throw"]
       ELSE IF ~renderTarget THEN [s3 EXCEPT !.src = "none", !.exit = "typeerror"]
       ELSE IF s4.exit # "return" THEN s4
       ELSE [s4 EXCEPT !.target = currentRenderTarget]

\* the statements of tock with the forEach over the sorted copy
tockRun(throwAt) == tockRunOver(sortedMaterials, throwAt)

\* atmospheric-post-processing.tock
tock(throwAt) ==
    /\ phase = "tock"
    /\ LET run == [handler |-> "tock", how |-> "return", entryTarget |-> rTarget,
                   camera |-> cameraPos, n |-> Len(postProcessingMaterials)]
       IN IF noBodies(postProcessingMaterials)
          THEN /\ throwAt = 0
               /\ lastRun' = run
               /\ phase' = "idle"
               /\ UNCHANGED <<image, postProcessingMaterials, quadMaterial, frameLog,
                              rTarget>>
          ELSE LET end == tockRun(throwAt)
               IN /\ image' = end.img
                  /\ postProcessingMaterials' = end.mats
                  /\ quadMaterial' = end.quadMat
                  /\ frameLog' = end.log
                  /\ rTarget' = end.target
                  /\ lastRun' = [run EXCEPT !.how = end.exit]
                  /\ phase' = IF end.exit = "return" THEN "idle" ELSE "aborted"
    /\ UNCHANGED <<hasLoaded, inited, listening, dom, sunEntity, cameraPos, planets,
                   depthRenderTarget, renderTarget, ortho, fetchPending, uau, ticked,
                   confVars, shaderCall, appVars>>

Next ==
    \/ init("ok")
    \/ loaded("ok")
    \/ shadersLoaded
    \/ shadersFailed
    \/ renderstart
    \/ moveCamera
    \/ beginFrame
    \/ tick
    \/ \E fails \in BOOLEAN : uauTick(fails)
    \/ sceneRender
    \/ \E throwAt \in 0..(2 + Len(postProcessingMaterials)) : tock(throwAt)

vars == <<hostVars, shaderCall>>

Spec == Init /\ [][Next]_vars


(***************************************************************************)
(* Part I: the claims about the compositor.                                *)
(***************************************************************************)
IsPass(e) == e.op = "quad"
IsDepthCapture(e) == e.op = "scene" /\ e.target \in {"depthRT", "uauDepthRT"}
IsColorRender(e) == e.op = "scene" /\ e.target = "colorRT"
\* the full-screen passes of the frame, in the order they were rendered
Passes == SelectSeq(frameLog, IsPass)
Positions(Test(_)) == {k \in 1..Len(frameLog) : Test(frameLog[k])}
Range(f) == {f[k] : k \in DOMAIN f}
\* a run of tock with at least one material has just returned
ChainDone == lastRun.handler = "tock" /\ lastRun.how = "return" /\ lastRun.n >= 1
\* the camera distance of body b in the last run of tock
RunDistance(b) == distanceTo(lastRun.camera, planets[b].position)
Ready ==
    /\ Len(postProcessingMaterials) > 0
    /\ ortho.quad /\ ortho.scene /\ ortho.camera

\* C1: after a frame's chain, the first pass has sampled the scene render in the
\* color target, every later pass has sampled the target the pass before it
\* wrote, and the image on screen carries every body of the chain.
C1_ChainedHandoff ==
    ChainDone =>
        /\ Len(Passes) = lastRun.n
        /\ Passes[1].src = "colorRT"
        /\ \A k \in 2..Len(Passes) : Passes[k].src = Passes[k - 1].target
        /\ \A k \in 1..Len(Passes) : Passes[k].body \in Range(image["screen"].passes)

\* C2: the passes of a frame's chain are rendered far to near: of two passes,
\* the earlier one's body is at least as far from the camera as the later one's.
C2_FarToNear ==
    lastRun.handler = "tock" =>
        \A i, j \in 1..Len(Passes) :
            i < j => RunDistance(Passes[i].body) >= RunDistance(Passes[j].body)

\* C2 witness: a chain has rendered a farther body and then a strictly nearer one
\* that stands behind it in the list of materials.
C2_Witness ==
    /\ ChainDone
    /\ Len(Passes) >= 2
    /\ RunDistance(Passes[1].body) > RunDistance(Passes[2].body)
    /\ Passes[1].body > Passes[2].body

\* C3: in a completed frame with at least one body the scene depth is captured
\* exactly once, before the scene render into the color target, which is before
\* every pass of the chain.
C3_DepthOnceFirst ==
    ChainDone =>
        /\ Cardinality(Positions(IsDepthCapture)) = 1
        /\ Cardinality(Positions(IsColorRender)) = 1
        /\ \A d \in Positions(IsDepthCapture), c \in Positions(IsColorRender) :
              /\ d < c
              /\ \A q \in Positions(IsPass) : c < q

\* a step of the compositor's tick or tock
CompositorStep ==
    \/ phase = "tick" /\ "comp" \notin ticked /\ "comp" \in ticked'
    \/ phase = "tock" /\ phase' # "tock"

\* C4: with no material, the compositor's tick and tock render nothing and leave
\* the renderer's target, the targets' images and the quad alone, and the frame
\* ends with the plain scene render on screen.
C4_ZeroBodiesSkip ==
    [][(CompositorStep /\ Len(postProcessingMaterials) = 0) =>
          /\ UNCHANGED <<rTarget, image, frameLog, quadMaterial, postProcessingMaterials>>
          /\ phase' \in {"tick", "idle"}
          /\ phase' = "idle" => image'["screen"] = [scene |-> TRUE, passes |-> <<>>]
      ]_vars

\* C4 witness: tock has run and returned with no material, with the set-up done.
C4_Witness ==
    /\ lastRun.handler = "tock" /\ lastRun.how = "return" /\ lastRun.n = 0
    /\ depthRenderTarget /\ renderTarget
    /\ image["screen"] = [scene |-> TRUE, passes |-> <<>>]

\* C9: whenever a handler that captures depth or composites is left, by return
\* or by an exception, the renderer's target is the one it had at the entry.
C9_TargetRestored ==
    lastRun.handler \in {"tock", "uauTick"} => rTarget = lastRun.entryTarget

\* C10: a material is given a source texture, bound to the quad or rendered in
\* a pass only when the materials, the quad, the ortho scene and the ortho
\* camera all exist; tock never fails on a missing one.
C10_NoPassBeforeReady ==
    \/ Ready
    \/ /\ Len(Passes) = 0
       /\ quadMaterial = 0
       /\ \A k \in 1..Len(postProcessingMaterials) :
             postProcessingMaterials[k].tDiffuse = "none"
       /\ lastRun.how # "typeerror"

\* C10 witness: a frame has run to the end of tock while the shader load was
\* still in flight, with planets waiting for their materials.
C10_Witness ==
    /\ fetchPending
    /\ Len(planets) > 0
    /\ lastRun.handler = "tock" /\ lastRun.how = "return"


(***************************************************************************)
(* Part II: raySphereIntersect.  The routine is written in two stages, the *)
(* coefficients of the quadratic and then its roots, so that each of its   *)
(* locals is computed once.                                                *)
(***************************************************************************)
discriminantOf(sphereCenter, sphereRadius, rayOrigin, rayDirection) ==
    LET offset == vsub(rayOrigin, sphereCenter)
        a == dot(rayDirection, rayDirection)
        b == mul[float[2], dot(offset, rayDirection)]
        c == sub[dot(offset, offset), mul[sphereRadius, sphereRadius]]
    IN sub[mul[b, b], mul[mul[float[4], a], c]]

\* the returns of the routine with the last one forgetting the subtraction
intersectionEnds(a, b, discriminant) ==
    LET sqrtDiscriminant == sqrt[discriminant]
        t0 == div[sub[neg[b], sqrtDiscriminant], mul[float[2], a]]
        t1 == div[add[neg[b], sqrtDiscriminant], mul[float[2], a]]
    IN IF lt[discriminant, float[0]] THEN <<float[-1], float[0]>>
       ELSE IF lt[t1, float[0]] THEN <<float[-1], float[0]>>
       ELSE IF lt[t0, float[0]] THEN <<float[0], t1>>
       ELSE <<t0, t1>>

\* raySphereIntersect from the test of the discriminant on
intersection(a, b, discriminant) ==
    LET sqrtDiscriminant == sqrt[discriminant]
        t0 == div[sub[neg[b], sqrtDiscriminant], mul[float[2], a]]
        t1 == div[add[neg[b], sqrtDiscriminant], mul[float[2], a]]
    IN IF lt[discriminant, float[0]] THEN <<float[-1], float[0]>>
       ELSE IF lt[t1, float[0]] THEN <<float[-1], float[0]>>
       ELSE IF lt[t0, float[0]] THEN <<float[0], t1>>
       ELSE <<t0, sub[t1, t0]>>

raySphereIntersect(sphereCenter, sphereRadius, rayOrigin, rayDirection) ==
    LET offset == vsub(rayOrigin, sphereCenter)
        a == dot(rayDirection, rayDirection)
        b == mul[float[2], dot(offset, rayDirection)]
        c == sub[dot(offset, offset), mul[sphereRadius, sphereRadius]]
        discriminant == sub[mul[b, b], mul[mul[float[4], a], c]]
    IN intersection(a, b, discriminant)

\* the arguments have an exact result: the discriminant is negative or a square
exactRay(sphereCenter, sphereRadius, rayOrigin, rayDirection) ==
    LET d == discriminantOf(sphereCenter, sphereRadius, rayOrigin, rayDirection)
    IN lt[d, float[0]] \/ isSquare[d]

\* largest sphere radius of the calls of raySphereIntersect
MaxRadius == 2

RayCenters == {vec3(0, 0, 0), vec3(1, 0, -1)}
RayOrigins ==
    {vec3(x, y, z) : x \in -1..1, y \in -1..1, z \in (-2 * MaxRadius)..(2 * MaxRadius)}
RayDirections ==
    {vec3(x, y, z) : x \in -1..1, y \in -1..1, z \in -1..1} \ {vec3(0, 0, 0)}

\* one call of raySphereIntersect
callRaySphereIntersect ==
    /\ shaderCall = NoCall
    /\ \E c \in RayCenters, r \in 1..MaxRadius, o \in RayOrigins, d \in RayDirections :
          /\ exactRay(c, float[r], o, d)
          /\ shaderCall' =
                [fn |-> "raySphereIntersect",
                 in |-> [sphereCenter |-> c, sphereRadius |-> float[r],
                         rayOrigin |-> o, rayDirection |-> d],
                 out |-> raySphereIntersect(c, float[r], o, d)]
    /\ UNCHANGED hostVars


(***************************************************************************)
(* Part II: density, optical depth and in-scattering.  exp is positive,    *)
(* and at most 1 exactly when its argument is at most 0: a quantity that   *)
(* holds a factor exp(..) is carried by its sign ("neg", "zero", "pos";    *)
(* "mixed" for a sum of terms of both signs), a value of exp by its class  *)
(* ("unit": in (0,1], "above": over 1, "unknown").  The geometry under it  *)
(* (sample points, step sizes, heights) is exact.                          *)
(***************************************************************************)
MAX_OPTICAL_DEPTH_SAMPLES == 16
MAX_IN_SCATTERING_POINTS == 16

sgn(x) == IF x[1] > 0 THEN "pos" ELSE IF x[1] < 0 THEN "neg" ELSE "zero"
sgnNeg(a) == IF a = "pos" THEN "neg" ELSE IF a = "neg" THEN "pos" ELSE a
sgnAdd(a, b) ==
    IF a = "zero" THEN b ELSE IF b = "zero" THEN a ELSE IF a = b THEN a ELSE "mixed"
sgnMul(a, b) ==
    IF a = "zero" \/ b = "zero" THEN "zero"
    ELSE IF a = "mixed" \/ b = "mixed" THEN "mixed"
    ELSE IF a = b THEN "pos" ELSE "neg"
\* the sign of a sum built from 0 by the additions acc += term, one per
\* iteration, from the signs of the terms: sgnAdd folded over them
sgnSum(signs) ==
    IF signs \subseteq {"zero"} THEN "zero"
    ELSE IF signs \subseteq {"zero", "pos"} THEN "pos"
    ELSE IF signs \subseteq {"zero", "neg"} THEN "neg"
    ELSE "mixed"
\* the class of exp(x) from the sign of x
exp(a) == IF a \in {"neg", "zero"} THEN "unit" ELSE IF a = "pos" THEN "above" ELSE "unknown"

\* the sign of localDensity = exp(-scaledHeight * upDensityFalloff) * (1.0 - scaledHeight)
densityAtPoint(u, point) ==
    LET heightAboveSurface == sub[length(vsub(point, u.uPlanetCenter)), u.uPlanetRadius]
        scaledHeight == div[heightAboveSurface, sub[u.upAtmosphereRadius, u.uPlanetRadius]]
    IN sgnMul("pos", sgn(sub[float[1], scaledHeight]))

\* the sign of the optical depth.  samplePoint starts at rayOrigin and is moved
\* by rayDirection * stepSize at the end of every iteration: in iteration i it is
\* rayOrigin + rayDirection * stepSize * i.
opticalDepth(u, rayOrigin, rayDirection, rayLength) ==
    LET stepSize == div[rayLength, float[MAX_OPTICAL_DEPTH_SAMPLES - 1]]
        samplePoint(i) == vadd(rayOrigin, vscale(rayDirection, mul[stepSize, float[i]]))
        term(i) == LET localDensity == densityAtPoint(u, samplePoint(i))
                   IN sgnMul(localDensity, sgn(stepSize))
    IN sgnSum({term(i) : i \in 0..(MAX_OPTICAL_DEPTH_SAMPLES - 1)})

\* iteration i of the loop of calculateLightInteraction, at inScatterPoint: the
\* class of transmitance per channel and the sign of the term added to
\* inScatteredLight per channel
lightStep(u, i, rayDirection, stepSize, inScatterPoint) ==
    LET sunRayLength == raySphereIntersect(u.uPlanetCenter, u.upAtmosphereRadius,
                                           inScatterPoint, u.uLightDir)[2]
        sunRayOpticalDepth == opticalDepth(u, inScatterPoint, u.uLightDir, sunRayLength)
        viewRayOpticalDepth ==
            opticalDepth(u, inScatterPoint, vscale(rayDirection, float[-1]),
                         mul[stepSize, float[i]])
        localDensity == densityAtPoint(u, inScatterPoint)
    IN [c \in 1..3 |->
           [transmitance |->
               exp(sgnNeg(sgnMul(sgnAdd(sunRayOpticalDepth, viewRayOpticalDepth),
                                 sgn(u.uScatterCoefficients[c])))),
            term |->
               sgnMul(sgnMul(sgnMul(localDensity, "pos"), sgn(u.uScatterCoefficients[c])),
                      sgn(stepSize))]]

\* the end of calculateLightInteraction from what its iterations gave: the
\* classes of transmitance met per channel, the signs of inScatteredLight and of
\* the returned colour finalColor * originalColorTransmitance + inScatteredLight
inScattered(finalColor, steps) ==
    [c \in 1..3 |->
        LET inScatteredLight == sgnSum({s[c].term : s \in steps})
            originalColorTransmitance == "pos"
        IN [transmitance |-> {s[c].transmitance : s \in steps},
            inScatteredLight |-> inScatteredLight,
            color |-> sgnAdd(sgnMul(sgn(finalColor[c]), originalColorTransmitance),
                             inScatteredLight)]]

\* calculateLightInteraction, per channel.  inScatterPoint starts at rayOrigin
\* and is moved by rayDirection * stepSize at the end of every iteration.
calculateLightInteraction(u, rayOrigin, rayDirection, rayLength, finalColor) ==
    LET stepSize == div[rayLength, float[MAX_IN_SCATTERING_POINTS - 1]]
    IN inScattered(finalColor,
                   {lightStep(u, i, rayDirection, stepSize,
                              vadd(rayOrigin, vscale(rayDirection, mul[stepSize, float[i]]))) :
                       i \in 0..(MAX_IN_SCATTERING_POINTS - 1)})


(***************************************************************************)
(* Part II: main, for the pixel at the centre of the screen (vUv = 0.5,    *)
(* ndc = 0): its view ray is the camera's forward axis u.cameraForward,    *)
(* which stands for the rotation of cameraWorldMatrix.                     *)
(***************************************************************************)
normalizeVec(v) == vscale(v, div[float[1], length(v)])

linearizeDepth(u, depth) ==
    LET z == sub[mul[depth, float[2]], float[1]]
    IN div[mul[mul[float[2], u.cameraNear], u.cameraFar],
           sub[add[u.cameraFar, u.cameraNear], mul[z, sub[u.cameraFar, u.cameraNear]]]]

\* cameraInverseProjection * vec4(0, 0, zNdc, 1) divided by its w: the view-space
\* z of the point, for the perspective projection with planes near and far
unprojectZ(u, zNdc) ==
    LET A == div[neg[add[u.cameraFar, u.cameraNear]], sub[u.cameraFar, u.cameraNear]]
        B == div[neg[mul[mul[float[2], u.cameraFar], u.cameraNear]],
                 sub[u.cameraFar, u.cameraNear]]
        w == div[add[zNdc, A], B]
    IN div[float[-1], w]

\* cameraWorldMatrix * vec4(0, 0, z, w): the camera looks down its local -z axis
toWorld(u, z, w) == vadd(vscale(u.uCameraPos, w), vscale(u.cameraForward, neg[z]))

BackgroundDepth == rat[9999, 10000]

\* the clipping of main with the test of the second branch against the length alone
clipNoEntry(isBackground, rayDistance, distanceToAtmosphere, distanceThroughAtmosphere) ==
    IF isBackground THEN distanceThroughAtmosphere
    ELSE IF lt[rayDistance, distanceToAtmosphere] THEN float[0]
    ELSE IF lt[rayDistance, distanceThroughAtmosphere]
         THEN sub[rayDistance, distanceToAtmosphere]
    ELSE distanceThroughAtmosphere

\* dstThroughAtmosphere of main: the traversal clipped against the scene depth
clip(isBackground, rayDistance, distanceToAtmosphere, distanceThroughAtmosphere) ==
    IF isBackground THEN distanceThroughAtmosphere
    ELSE IF lt[rayDistance, distanceToAtmosphere] THEN float[0]
    ELSE IF lt[rayDistance, add[distanceToAtmosphere, distanceThroughAtmosphere]]
         THEN sub[rayDistance, distanceToAtmosphere]
    ELSE distanceThroughAtmosphere

\* the outer test of main: the ray enters the shell and traverses it
enters(distanceToAtmosphere, distanceThroughAtmosphere) ==
    le[float[0], distanceToAtmosphere] /\ lt[float[0], distanceThroughAtmosphere]

\* the two nested tests with >= for > throughout
evaluatesFromZero(distanceToAtmosphere, distanceThroughAtmosphere, dstThroughAtmosphere) ==
    /\ le[float[0], distanceToAtmosphere] /\ le[float[0], distanceThroughAtmosphere]
    /\ le[float[0], dstThroughAtmosphere]

\* the two nested tests of main under which calculateLightInteraction is called
evaluates(distanceToAtmosphere, distanceThroughAtmosphere, dstThroughAtmosphere) ==
    /\ enters(distanceToAtmosphere, distanceThroughAtmosphere)
    /\ lt[float[0], dstThroughAtmosphere]

\* main from the atmosphere intersection on.  finalColor is the colour before the
\* call of calculateLightInteraction and a the alpha written with it; light holds
\* the arguments of that call, whose result then replaces finalColor, and is empty
\* when the call is not made and finalColor is the output colour.
mainAtmosphere(originalColor, rayOrigin, rayDirection, isBackground, rayDistance, atmosphereHit) ==
    LET distanceToAtmosphere == atmosphereHit[1]
        distanceThroughAtmosphere == atmosphereHit[2]
        finalColor == <<originalColor[1], originalColor[2], originalColor[3]>>
        entered == enters(distanceToAtmosphere, distanceThroughAtmosphere)
        dstThroughAtmosphere ==
            clip(isBackground, rayDistance, distanceToAtmosphere, distanceThroughAtmosphere)
        pointInAtmosphere == vadd(rayOrigin, vscale(rayDirection, distanceToAtmosphere))
    IN [finalColor |-> finalColor,
        a |-> float[1],
        light |-> IF evaluates(distanceToAtmosphere, distanceThroughAtmosphere,
                               dstThroughAtmosphere)
                  THEN <<[rayOrigin |-> pointInAtmosphere, rayDirection |-> rayDirection,
                          rayLength |-> dstThroughAtmosphere, finalColor |-> finalColor]>>
                  ELSE <<>>,
        entered |-> entered,
        isBackground |-> isBackground,
        rayDistance |-> rayDistance,
        atmosphereHit |-> atmosphereHit,
        dstThroughAtmosphere |-> IF entered THEN dstThroughAtmosphere ELSE float[0]]

\* main up to the atmosphere intersection
main(u, px) ==
    LET viewVector == toWorld(u, unprojectZ(u, float[-1]), float[0])
        rayOrigin == u.uCameraPos
        rayDirection == normalizeVec(viewVector)
        screenDepthNonLinear == px.tDepth
        isBackground == le[BackgroundDepth, screenDepthNonLinear]
        worldPos == toWorld(u, unprojectZ(u, sub[mul[screenDepthNonLinear, float[2]],
                                                 float[1]]), float[1])
        rayDistance == IF isBackground THEN float[0]
                       ELSE length(vsub(worldPos, rayOrigin))
    IN mainAtmosphere(px.tDiffuse, rayOrigin, rayDirection, isBackground, rayDistance,
                      raySphereIntersect(u.uPlanetCenter, u.upAtmosphereRadius,
                                         rayOrigin, rayDirection))


(***************************************************************************)
(* Part II: the calls.  The planet is at the origin; the radii are drawn   *)
(* as the planet-atmosphere attributes and the two independent sliders of  *)
(* atmosphere-gui allow them, in either order.                             *)
(***************************************************************************)
ShellRadii == {<<p, a>> : p \in 1..(MaxRadius + 1), a \in 1..(MaxRadius + 1)} \
              {<<r, r>> : r \in 1..(MaxRadius + 1)}

\* Math.pow(400 / wavelength, 4.0) * strength for (700, 530, 440) and 1.0
ReferenceCoefficients == <<rat[256, 2401], rat[2560000, 7890481], rat[10000, 14641]>>

Forwards == {vec3(0, 0, 1), vec3(0, 0, -1), vec3(0, 1, 0)}
\* a camera on the axis that has every shell of the model beyond cameraFar = 11
FarCamera == vec3(0, 0, -(MaxRadius + 13))
CameraPositions ==
    {vec3(0, y, z) : y \in 0..(MaxRadius + 2), z \in (-(MaxRadius + 3))..1}
      \cup {FarCamera}
LightDirections == {vec3(0, 0, 1), vec3(0, 0, -1)}
\* depth samples, in ten-thousandths
DepthSamples == {0, 5500, 8250, 9000, 9625, 9900, 9998, 9999, 10000}
LightDepthSamples == {5500, 10000}
Colors == {<<float[0], float[0], float[0], float[0]>>,
           <<rat[1, 2], float[1], float[0], float[1]>>}

uniforms(radii, position, forward, lightDir) ==
    [uCameraPos |-> position, cameraForward |-> forward,
     cameraNear |-> float[1], cameraFar |-> float[11],
     uLightDir |-> lightDir,
     uPlanetRadius |-> float[radii[1]], uPlanetCenter |-> vec3(0, 0, 0),
     upAtmosphereRadius |-> float[radii[2]], upDensityFalloff |-> float[4],
     uScatterCoefficients |-> ReferenceCoefficients]

\* one run of main for the centre pixel
callMain ==
    /\ shaderCall = NoCall
    /\ \E radii \in ShellRadii, pos \in CameraPositions, fwd \in Forwards,
          k \in DepthSamples, color \in Colors :
          LET u == uniforms(radii, pos, fwd, vec3(0, 0, 1))
              px == [tDiffuse |-> color, tDepth |-> rat[k, 10000]]
          IN /\ exactRay(u.uPlanetCenter, u.upAtmosphereRadius, pos, fwd)
             /\ shaderCall' = [fn |-> "main", in |-> [u |-> u, px |-> px],
                               out |-> main(u, px)]
    /\ UNCHANGED hostVars

\* one call of calculateLightInteraction as main makes it, for a camera on the
\* axis through the planet that looks and is lit along that axis
callCalculateLightInteraction ==
    /\ shaderCall = NoCall
    /\ \E radii \in ShellRadii, z \in {-(MaxRadius + 2), -1},
          fwd \in {vec3(0, 0, 1), vec3(0, 0, -1)}, k \in LightDepthSamples,
          lightDir \in LightDirections :
          LET u == uniforms(radii, vec3(0, 0, z), fwd, lightDir)
              px == [tDiffuse |-> <<rat[1, 2], float[1], float[0], float[1]>>,
                     tDepth |-> rat[k, 10000]]
          IN \E args \in Range(main(u, px).light) :
                shaderCall' =
                   [fn |-> "calculateLightInteraction",
                    in |-> [u |-> u, px |-> px, args |-> args],
                    out |-> calculateLightInteraction(u, args.rayOrigin, args.rayDirection,
                                                      args.rayLength, args.finalColor)]
    /\ UNCHANGED hostVars

\* the page with no component attached and the shader not invoked
IdlePage ==
    /\ hasLoaded = FALSE
    /\ inited = FALSE
    /\ listening = FALSE
    /\ dom = <<>>
    /\ sunEntity = <<>>
    /\ cameraPos = 0
    /\ planets = <<>>
    /\ depthRenderTarget = FALSE
    /\ renderTarget = FALSE
    /\ postProcessingMaterials = <<>>
    /\ ortho = [quad |-> FALSE, scene |-> FALSE, camera |-> FALSE]
    /\ quadMaterial = 0
    /\ fetchPending = FALSE
    /\ uau = [mode |-> "absent", depthRenderTarget |-> FALSE]
    /\ rTarget = "screen"
    /\ image = [t \in Targets |-> EmptyImage]
    /\ phase = "idle"
    /\ ticked = {}
    /\ frameLog = <<>>
    /\ lastRun = NoRun
    /\ InitConf
    /\ shaderCall = NoCall

InitShader ==
    /\ IdlePage
    /\ InitApps

NextShader ==
    \/ callRaySphereIntersect
    \/ callMain
    \/ callCalculateLightInteraction

SpecShader == InitShader /\ [][NextShader]_vars


(***************************************************************************)
(* Part II: the claims on the shader routines, under SpecShader.           *)
(***************************************************************************)
IsCall(fn) == shaderCall # NoCall /\ shaderCall.fn = fn

\* the point of the ray of a raySphereIntersect call at parameter t lies on the sphere
OnSphere(in, t) ==
    LET p == vsub(vadd(in.rayOrigin, vscale(in.rayDirection, t)), in.sphereCenter)
    IN dot(p, p) = mul[in.sphereRadius, in.sphereRadius]

\* the sign of |rayOrigin - sphereCenter|^2 - sphereRadius^2: negative inside the sphere
SideOfSphere(in) ==
    LET o == vsub(in.rayOrigin, in.sphereCenter)
    IN sign[sub[dot(o, o), mul[in.sphereRadius, in.sphereRadius]]]

\* the sign of (rayOrigin - sphereCenter) . rayDirection: positive when the ray
\* points away from the centre
Heading(in) == sign[dot(vsub(in.rayOrigin, in.sphereCenter), in.rayDirection)]

\* C5: raySphereIntersect returns (-1, 0) when the line misses the sphere and
\* when both intersections are behind the origin, (0, t1) when the origin is
\* inside (t0 < 0 <= t1), and (t0, t1 - t0) otherwise, t0 <= t1 being the
\* parameters of the two points of the ray on the sphere; for a sphere of radius
\* r at the origin the ray from (0, 0, -2r) toward +z returns (r, 2r).
C5_RaySphereIntersect ==
    IsCall("raySphereIntersect") =>
        LET in == shaderCall.in
            out == shaderCall.out
            d == discriminantOf(in.sphereCenter, in.sphereRadius, in.rayOrigin,
                                in.rayDirection)
            miss == sign[d] < 0
            behind == sign[d] >= 0 /\ SideOfSphere(in) > 0 /\ Heading(in) > 0
            inside == sign[d] >= 0 /\ (\/ SideOfSphere(in) < 0
                                       \/ SideOfSphere(in) = 0 /\ Heading(in) > 0)
        IN /\ miss => out = <<float[-1], float[0]>>
           /\ behind => out = <<float[-1], float[0]>>
           /\ inside => /\ out[1] = float[0]
                        /\ sign[out[2]] >= 0
                        /\ OnSphere(in, out[2])
           /\ ~miss /\ ~behind /\ ~inside =>
                 /\ sign[out[1]] >= 0
                 /\ sign[out[2]] >= 0
                 /\ OnSphere(in, out[1])
                 /\ OnSphere(in, add[out[1], out[2]])
                 /\ (sign[out[2]] = 0) = (sign[d] = 0)
           /\ \A r \in 1..MaxRadius :
                 in = [sphereCenter |-> vec3(0, 0, 0), sphereRadius |-> float[r],
                       rayOrigin |-> vec3(0, 0, -2 * r), rayDirection |-> vec3(0, 0, 1)]
                 => out = <<float[r], float[2 * r]>>

\* C5 witness: the ray from (0, 0, -2r) toward +z has been intersected with the
\* sphere of radius r at the origin, and the result is two separate values.
C5_Witness ==
    /\ IsCall("raySphereIntersect")
    /\ shaderCall.in = [sphereCenter |-> vec3(0, 0, 0), sphereRadius |-> float[2],
                        rayOrigin |-> vec3(0, 0, -4), rayDirection |-> vec3(0, 0, 1)]
    /\ shaderCall.out = <<float[2], float[4]>>

\* C6: in a run of main whose view ray enters the shell with a positive length,
\* the traversal handed on is the full one for a background pixel (depth sample
\* >= 0.9999); for a pixel with geometry it is 0, and the output is the original
\* colour, when the surface is nearer than the entry, the surface distance minus
\* the entry distance when the surface is inside the shell, and the full one when
\* the surface is beyond the exit; it is always within [0, full length].
C6_DepthClipping ==
    IsCall("main") =>
        LET in == shaderCall.in
            out == shaderCall.out
            entry == out.atmosphereHit[1]
            full == out.atmosphereHit[2]
            surface == linearizeDepth(in.u, in.px.tDepth)
            dst == out.dstThroughAtmosphere
        IN (sign[entry] >= 0 /\ sign[full] > 0) =>
              /\ out.entered
              /\ le[float[0], dst] /\ le[dst, full]
              /\ le[rat[9999, 10000], in.px.tDepth] => dst = full
              /\ lt[in.px.tDepth, rat[9999, 10000]] =>
                    /\ lt[surface, entry] =>
                          /\ dst = float[0]
                          /\ out.light = <<>>
                          /\ out.finalColor = SubSeq(in.px.tDiffuse, 1, 3)
                    /\ (le[entry, surface] /\ lt[surface, add[entry, full]]) =>
                          dst = sub[surface, entry]
                    /\ le[add[entry, full], surface] => dst = full

\* C6 witness: a run of main for a pixel whose surface lies strictly inside the
\* shell, past an entry in front of the camera: the traversal is cut short.
C6_Witness ==
    /\ IsCall("main")
    /\ sign[shaderCall.out.atmosphereHit[1]] > 0
    /\ ~shaderCall.out.isBackground
    /\ sign[shaderCall.out.dstThroughAtmosphere] > 0
    /\ lt[shaderCall.out.dstThroughAtmosphere, shaderCall.out.atmosphereHit[2]]
    /\ le[shaderCall.out.atmosphereHit[2], shaderCall.out.rayDistance]

\* C7: in a run of main whose view ray does not enter the shell or has no
\* positive length in it (a miss, a sphere behind the camera, a tangent ray),
\* calculateLightInteraction is not called and the output colour is the input
\* colour.
C7_PassThrough ==
    IsCall("main") =>
        LET in == shaderCall.in
            out == shaderCall.out
        IN ~(sign[out.atmosphereHit[1]] >= 0 /\ sign[out.atmosphereHit[2]] > 0) =>
              /\ out.light = <<>>
              /\ out.finalColor = SubSeq(in.px.tDiffuse, 1, 3)

\* C7 witness: a run of main for a view ray tangent to the shell in front of the
\* camera (an entry, no length), which passed the colour through.
C7_Witness ==
    /\ IsCall("main")
    /\ sign[shaderCall.out.atmosphereHit[1]] > 0
    /\ shaderCall.out.atmosphereHit[2] = float[0]
    /\ shaderCall.out.light = <<>>
    /\ shaderCall.in.px.tDiffuse[2] = float[1]

\* the segment of a calculateLightInteraction call lies inside the sphere of the
\* atmosphere: both its ends are within upAtmosphereRadius of the planet's centre
SegmentInAtmosphere(in) ==
    LET from == vsub(in.args.rayOrigin, in.u.uPlanetCenter)
        to == vadd(from, vscale(in.args.rayDirection, in.args.rayLength))
        r2 == mul[in.u.upAtmosphereRadius, in.u.upAtmosphereRadius]
    IN le[dot(from, from), r2] /\ le[dot(to, to), r2]

\* C8: in every call of calculateLightInteraction on a segment inside the
\* atmosphere with non-negative scatter coefficients, every transmitance is in
\* [0, 1] in every channel, inScatteredLight is non-negative in every channel
\* and the returned colour is non-negative in every channel.
C8_LightInRange ==
    (/\ IsCall("calculateLightInteraction")
     /\ SegmentInAtmosphere(shaderCall.in)
     /\ \A c \in 1..3 : sign[shaderCall.in.u.uScatterCoefficients[c]] >= 0) =>
        \A c \in 1..3 :
           /\ shaderCall.out[c].transmitance \subseteq {"unit"}
           /\ shaderCall.out[c].inScatteredLight \in {"zero", "pos"}
           /\ shaderCall.out[c].color \in {"zero", "pos"}


\* every point of the atmosphere shell is farther from the camera than cameraFar
ShellBehindFarPlane(u) ==
    LET o == vsub(u.uCameraPos, u.uPlanetCenter)
        reach == add[u.cameraFar, u.upAtmosphereRadius]
    IN lt[mul[reach, reach], dot(o, o)]

\* C18: for a shell that is entirely behind the far plane, main does not call
\* calculateLightInteraction and writes the colour of the scene.
C18_BehindFarPlane ==
    (IsCall("main") /\ ShellBehindFarPlane(shaderCall.in.u)) =>
        /\ shaderCall.out.light = <<>>
        /\ shaderCall.out.finalColor = SubSeq(shaderCall.in.px.tDiffuse, 1, 3)

(***************************************************************************)
(* Part III: the lifetime of the compositor and the page around it.        *)
(*   SpecLife: the handlers of Part I and the remove handler, with a       *)
(*     creation of the render targets that can fail.                       *)
(*   SpecPage: the handlers of Part I and what the page does between two   *)
(*     frames: the window is resized, a planet-atmosphere element is added *)
(*     to or taken out of the document, the #sun entity moves.             *)
(***************************************************************************)
\* atmospheric-post-processing.remove: dispose() on the targets that exist and
\* on the materials the array holds at this moment
remove ==
    /\ inited
    /\ ~removed
    /\ phase = "idle"
    /\ removed' = TRUE
    /\ disposed' =
         [depthRenderTarget |-> disposed.depthRenderTarget \/ depthRenderTarget,
          renderTarget |-> disposed.renderTarget \/ renderTarget,
          materials |-> disposed.materials \cup (1..Len(postProcessingMaterials))]
    /\ UNCHANGED <<hasLoaded, inited, listening, dom, sunEntity, cameraPos, planets,
                   depthRenderTarget, renderTarget, postProcessingMaterials, ortho,
                   quadMaterial, fetchPending, uau, rTarget, image, phase, ticked,
                   frameLog, lastRun, viewport, targetSize, waveLenghts,
                   scatteringStrength, scatterCoefficients, gui, allocations,
                   shaderCall, appVars>>

\* the window is resized between two frames: the renderer's size changes
resize ==
    /\ phase = "idle"
    /\ \E size \in Viewports \ {viewport} : viewport' = size
    /\ UNCHANGED <<hasLoaded, inited, listening, dom, sunEntity, cameraPos, planets,
                   depthRenderTarget, renderTarget, postProcessingMaterials, ortho,
                   quadMaterial, fetchPending, uau, rTarget, image, phase, ticked,
                   frameLog, lastRun, removed, disposed, targetSize, waveLenghts,
                   scatteringStrength, scatterCoefficients, gui, allocations,
                   shaderCall, appVars>>

\* a [planet-atmosphere] element is added to the document between two frames;
\* its sunPosition is the position of the #sun entity when there is one
registerBody ==
    /\ phase = "idle"
    /\ Len(dom) < MaxPlanets
    /\ \E el \in Elements :
         /\ el.center = 0
         /\ IF sunEntity # <<>> THEN el.sunPosition = sunEntity[1]
            ELSE \A i \in 1..Len(dom) : el.sunPosition = dom[i].sunPosition
         /\ dom' = Append(dom, el)
    /\ UNCHANGED <<hasLoaded, inited, listening, sunEntity, cameraPos, planets,
                   depthRenderTarget, renderTarget, postProcessingMaterials, ortho,
                   quadMaterial, fetchPending, uau, rTarget, image, phase, ticked,
                   frameLog, lastRun, confVars, shaderCall, appVars>>

\* a [planet-atmosphere] element is taken out of the document between two frames
deregisterBody ==
    /\ phase = "idle"
    /\ \E i \in 1..Len(dom) :
         dom' = SubSeq(dom, 1, i - 1) \o SubSeq(dom, i + 1, Len(dom))
    /\ UNCHANGED <<hasLoaded, inited, listening, sunEntity, cameraPos, planets,
                   depthRenderTarget, renderTarget, postProcessingMaterials, ortho,
                   quadMaterial, fetchPending, uau, rTarget, image, phase, ticked,
                   frameLog, lastRun, confVars, shaderCall, appVars>>

\* the #sun entity moves between two frames
moveSun ==
    /\ phase = "idle"
    /\ sunEntity # <<>>
    /\ \E p \in SunPositions \ {sunEntity[1]} : sunEntity' = <<p>>
    /\ UNCHANGED <<hasLoaded, inited, listening, dom, cameraPos, planets,
                   depthRenderTarget, renderTarget, postProcessingMaterials, ortho,
                   quadMaterial, fetchPending, uau, rTarget, image, phase, ticked,
                   frameLog, lastRun, confVars, shaderCall, appVars>>

\* the camera stays at the origin and every planet is centred there; there is
\* no update-atmosphere-uniforms and no #sun entity
InitLife ==
    /\ Init
    /\ cameraPos = 0
    /\ uau.mode = "absent"
    /\ sunEntity = <<>>
    /\ \A i \in 1..Len(dom) : dom[i].center = 0

NextLife ==
    \/ \E alloc \in AllocOutcomes : init(alloc)
    \/ \E alloc \in AllocOutcomes : loaded(alloc)
    \/ shadersLoaded
    \/ shadersFailed
    \/ remove
    \/ beginFrame
    \/ tick
    \/ sceneRender
    \/ tock(0)

SpecLife == InitLife /\ [][NextLife]_vars

\* the camera stays at the origin and every planet is centred there;
\* update-atmosphere-uniforms is absent or active; the sunPosition of the
\* elements is the position of the #sun entity when there is one
InitPage ==
    /\ Init
    /\ cameraPos = 0
    /\ uau.mode \in {"absent", "active"}
    /\ \A i \in 1..Len(dom) :
         /\ dom[i].center = 0
         /\ sunEntity # <<>> => dom[i].sunPosition = sunEntity[1]

NextPage ==
    \/ init("ok")
    \/ loaded("ok")
    \/ shadersLoaded
    \/ renderstart
    \/ resize
    \/ registerBody
    \/ deregisterBody
    \/ moveSun
    \/ beginFrame
    \/ tick
    \/ uauTick(FALSE)
    \/ sceneRender
    \/ tock(0)

SpecPage == InitPage /\ [][NextPage]_vars

\* every target and every material that exists has had its dispose() called
AllReleased ==
    /\ depthRenderTarget => disposed.depthRenderTarget
    /\ renderTarget => disposed.renderTarget
    /\ \A i \in 1..Len(postProcessingMaterials) : i \in disposed.materials

\* C11: once remove has run, the depth target, the color target and every
\* material ever created are released, whatever the order of remove, the
\* scene's 'loaded' event and the completion of the shader load.
C11_RemoveReleasesAll == removed => AllReleased


\* the frame loop keeps running while the component is attached, the scene
\* loads, and a started shader fetch settles
FairLife ==
    /\ SpecLife
    /\ WF_vars(loaded("ok"))
    /\ WF_vars(shadersLoaded)
    /\ WF_vars(beginFrame)
    /\ WF_vars(tick)
    /\ WF_vars(sceneRender)
    /\ WF_vars(tock(0))

\* C13: a chain that runs when the shader load has completed renders one pass
\* for each planet-atmosphere element the document holds in that frame, so an
\* element added or taken out between two frames shows in the next chain.
C13_CollectsActiveBodies ==
    [][(phase = "tock" /\ phase' = "idle" /\ ~fetchPending /\ ortho.quad)
         => Len(SelectSeq(frameLog', IsPass)) = Len(dom)]_vars

\* C17: the tick of a frame leaves in every material the light direction of the
\* position the #sun entity has in that frame.
C17_LightFollowsSun ==
    [][(phase = "tick" /\ "comp" \notin ticked /\ "comp" \in ticked'
          /\ sunEntity # <<>>)
         => \A i \in 1..Len(postProcessingMaterials') :
               postProcessingMaterials'[i].uLightDir = normalize(sunEntity[1])]_vars

\* C19: the chain of a frame finds the depth target and the color target at the
\* size of the viewport of that frame.
C19_TargetsSizedToViewport ==
    (phase = "tock" /\ ~noBodies(postProcessingMaterials)) => targetSize = viewport

\* the last creation of the render targets failed
AllocationFailed == allocations # <<>> /\ allocations[Len(allocations)] # "ok"

\* C20: a failed creation of the render targets is followed, while the
\* component stays attached, by another attempt in a later frame.
C20_RetriesAllocation ==
    [](AllocationFailed => <>(removed \/ Len(allocations) > 1))

(***************************************************************************)
(* Part III (SpecChain): a chain during which the array                    *)
(* this.postProcessingMaterials changes.  JavaScript runs tock to          *)
(* completion, so the load callback cannot run inside it; what can run     *)
(* inside a renderer.render call is a callback of the page, and such a     *)
(* callback can push to the array or pop from it.                          *)
(***************************************************************************)
Changes == {"push", "pop"}

\* Array.prototype.push of one more entry x, Array.prototype.pop
changed(array, change, x) ==
    IF change = "push" THEN Append(array, x) ELSE SubSeq(array, 1, Len(array) - 1)

\* the array that forEach iterates, given the array at the sort and the array
\* now: the sort is applied to a copy, [...this.postProcessingMaterials], and
\* the copy is what forEach iterates
liveArray(atSort, now) == now
spreadCopy(atSort, now) == atSort

\* Array.prototype.forEach over the sorted array when a callback changes the
\* array during the render of visit at (0: no callback does): the visits are the
\* indices below the length at the start that the iterated array still has
visits(order, at, change) ==
    LET now(k) == IF at = 0 \/ k <= at THEN order
                  ELSE changed(order, change, Len(order) + 1)
        has == {k \in 1..Len(order) : k <= Len(spreadCopy(order, now(k)))}
    IN [k \in has |-> spreadCopy(order, now(k))[k]]

\* atmospheric-post-processing.tock with such a callback
tockChanging(at, change) ==
    /\ phase = "tock"
    /\ ~noBodies(postProcessingMaterials)
    /\ ortho.quad
    /\ at \in 0..Len(postProcessingMaterials)
    /\ at = 0 => change = "pop"
    /\ change = "push" => Len(postProcessingMaterials) <= MaxPlanets
    /\ LET run == [handler |-> "tock", how |-> "return", entryTarget |-> rTarget,
                   camera |-> cameraPos, n |-> Len(postProcessingMaterials)]
           end == tockRunOver(visits(sortedMaterials, at, change), 0)
       IN /\ image' = end.img
          /\ postProcessingMaterials' =
                IF at = 0 THEN end.mats ELSE changed(end.mats, change, newMaterial(1))
          /\ quadMaterial' = end.quadMat
          /\ frameLog' = end.log
          /\ rTarget' = end.target
          /\ lastRun' = [run EXCEPT !.how = end.exit]
          /\ phase' = IF end.exit = "return" THEN "idle" ELSE "aborted"
    /\ UNCHANGED <<hasLoaded, inited, listening, dom, sunEntity, cameraPos, planets,
                   depthRenderTarget, renderTarget, ortho, fetchPending, uau, ticked,
                   confVars, shaderCall, appVars>>

\* the scene has loaded, there is no update-atmosphere-uniforms and no #sun
InitChain ==
    /\ Init
    /\ hasLoaded
    /\ uau.mode = "absent"
    /\ sunEntity = <<>>

NextChain ==
    \/ init("ok")
    \/ shadersLoaded
    \/ moveCamera
    \/ beginFrame
    \/ tick
    \/ sceneRender
    \/ tock(0)
    \/ \E at \in 0..(MaxPlanets + 1), change \in Changes : tockChanging(at, change)

SpecChain == InitChain /\ [][NextChain]_vars

\* the bodies of the materials, in the order of the sort of the current state
SortedBodies ==
    [k \in 1..Len(postProcessingMaterials) |->
       postProcessingMaterials[sortedMaterials[k]].planet]

\* C12: a chain that runs to its end has rendered one pass for each body of the
\* list as it was when the chain started, in the order of the sort made then,
\* also when a body is pushed to the list or popped from it while the chain runs.
C12_StableSnapshot ==
    [][(phase = "tock" /\ phase' = "idle" /\ ~noBodies(postProcessingMaterials))
         => [k \in 1..Len(SelectSeq(frameLog', IsPass)) |->
               SelectSeq(frameLog', IsPass)[k].body] = SortedBodies]_vars

\* a chain of two passes has run to its end and the list is not any more of the
\* length it had at the entry of that run: a body was pushed or popped meanwhile
C12_Witness ==
    /\ phase = "idle"
    /\ lastRun.handler = "tock"
    /\ lastRun.how = "return"
    /\ lastRun.n >= 2
    /\ Len(Passes) = lastRun.n
    /\ Len(postProcessingMaterials) # lastRun.n


(***************************************************************************)
(* Part IV (SpecGui): atmosphere-gui.  Its setup reads the parameters from *)
(* the first planet-atmosphere element and from the compositor; every      *)
(* change of a slider and the reset button run updateParameters.           *)
(***************************************************************************)
\* values of the sliders of the radii, of the wavelengths, of the strength and
\* of the falloff: an end of each range, both ends for the strength; the
\* sliders of the centre and of the sun stay where setup or reset put them
Sliders ==
    [planetRadius |-> {200}, atmosphereRadius |-> {10},
     wavelengthR |-> {380}, wavelengthG |-> {780}, wavelengthB |-> {380},
     scatteringStrength |-> {rat[1, 10], float[3]}, densityFalloff |-> {10}]

\* the parameters after the reset button
resetParams ==
    [planetRadius |-> 80, atmosphereRadius |-> 90, centerX |-> 0, sunX |-> -1,
     wavelengthR |-> 700, wavelengthG |-> 530, wavelengthB |-> 440,
     scatteringStrength |-> float[1], densityFalloff |-> 4]

\* the three scatter coefficients updateParameters computes
updateCoefficients(params) ==
    LET scatterR == mul[pow(rat[400, params.wavelengthR], 4), params.scatteringStrength]
        scatterG == mul[pow(rat[400, params.wavelengthG], 4), params.scatteringStrength]
        scatterB == mul[pow(rat[400, params.wavelengthB], 4), params.scatteringStrength]
    IN <<scatterR, scatterG, scatterB>>

\* atmosphere-gui.setup on a loaded scene that has a planet and the compositor
guiSetup ==
    /\ gui = <<>>
    /\ hasLoaded
    /\ inited
    /\ phase = "idle"
    /\ Len(dom) >= 1
    /\ gui' = [planetRadius |-> dom[1].planetRadius,
               atmosphereRadius |-> dom[1].atmosphereRadius,
               centerX |-> dom[1].center, sunX |-> dom[1].sunPosition,
               wavelengthR |-> waveLenghts[1], wavelengthG |-> waveLenghts[2],
               wavelengthB |-> waveLenghts[3],
               scatteringStrength |-> scatteringStrength, densityFalloff |-> 4]
    /\ UNCHANGED <<hasLoaded, inited, listening, dom, sunEntity, cameraPos, planets,
                   depthRenderTarget, renderTarget, postProcessingMaterials, ortho,
                   quadMaterial, fetchPending, uau, rTarget, image, phase, ticked,
                   frameLog, lastRun, removed, disposed, viewport, targetSize,
                   waveLenghts, scatteringStrength, scatterCoefficients, allocations,
                   shaderCall, appVars>>

\* the planet entry of a material after updateParameters: the data of the GUI's
\* planet element
updatedPlanet(params) ==
    [position |-> params.centerX, atmosphereRadius |-> params.atmosphereRadius,
     planetRadius |-> params.planetRadius, sunPosition |-> params.sunX]

\* atmosphere-gui.updateParameters with this.params = params
updateParameters(params) ==
    /\ gui' = params
    /\ dom' = [dom EXCEPT ![1] =
                 [center |-> params.centerX, sunPosition |-> params.sunX,
                  planetRadius |-> params.planetRadius,
                  atmosphereRadius |-> params.atmosphereRadius]]
    /\ sunEntity' = IF sunEntity = <<>> THEN sunEntity ELSE <<params.sunX>>
    /\ waveLenghts' = <<params.wavelengthR, params.wavelengthG, params.wavelengthB>>
    /\ scatteringStrength' = params.scatteringStrength
    /\ scatterCoefficients' = updateCoefficients(params)
    /\ planets' =
         [k \in 1..Len(planets) |->
            IF \E i \in 1..Len(postProcessingMaterials) :
                  postProcessingMaterials[i].planet = k
            THEN updatedPlanet(params) ELSE planets[k]]
    /\ postProcessingMaterials' =
         [i \in 1..Len(postProcessingMaterials) |->
            [postProcessingMaterials[i] EXCEPT
               !.uPlanetRadius = params.planetRadius,
               !.uPlanetCenter = params.centerX,
               !.upAtmosphereRadius = params.atmosphereRadius,
               !.upDensityFalloff = params.densityFalloff,
               !.uScatterCoefficients = updateCoefficients(params)]]
    /\ UNCHANGED <<hasLoaded, inited, listening, cameraPos, depthRenderTarget,
                   renderTarget, ortho, quadMaterial, fetchPending, uau, rTarget,
                   image, phase, ticked, frameLog, lastRun, removed, disposed,
                   viewport, targetSize, allocations, shaderCall, appVars>>

\* a slider is moved: the onChange of its controller
change ==
    /\ gui # <<>>
    /\ phase = "idle"
    /\ \E field \in DOMAIN Sliders :
         \E value \in Sliders[field] \ {gui[field]} :
            updateParameters([gui EXCEPT ![field] = value])

\* the reset button
reset ==
    /\ gui # <<>>
    /\ phase = "idle"
    /\ updateParameters(resetParams)

\* the camera stays at the origin and every planet is centred there, there is
\* no update-atmosphere-uniforms
InitGui ==
    /\ Init
    /\ cameraPos = 0
    /\ uau.mode = "absent"
    /\ \A i \in 1..Len(dom) : dom[i].center = 0

NextGui ==
    \/ init("ok")
    \/ loaded("ok")
    \/ shadersLoaded
    \/ guiSetup
    \/ change
    \/ reset

SpecGui == InitGui /\ [][NextGui]_vars

\* (400 / waveLength)^4 * strength, the power taken of the numerator and of the
\* denominator of the reduced fraction
Coefficient(waveLength, strength) ==
    LET g == gcd(400, waveLength)
    IN rat[((400 \div g) ^ 4) * strength[1], ((waveLength \div g) ^ 4) * strength[2]]

\* C14: for the wavelengths and the strength of the GUI, setup and
\* updateParameters compute the same three coefficients, each of them
\* (400 / wavelength)^4 * strength; for (700, 530, 440) and 1.0 they are
\* 256/2401, 2560000/7890481 and 10000/14641.
C14_CoefficientsPure ==
    gui # <<>> =>
        LET w == <<gui.wavelengthR, gui.wavelengthG, gui.wavelengthB>>
            strength == gui.scatteringStrength
        IN /\ setupCoefficients(w, strength) = updateCoefficients(gui)
           /\ \A c \in 1..3 :
                 setupCoefficients(w, strength)[c] = Coefficient(w[c], strength)
           /\ (w = <<700, 530, 440>> /\ strength = float[1])
                 => setupCoefficients(w, strength) = ReferenceCoefficients

\* the GUI holds wavelengths and a strength other than those of init, and the
\* compositor holds the coefficients updateParameters computed from them
C14_Witness ==
    /\ gui # <<>>
    /\ gui.wavelengthR = 380
    /\ gui.wavelengthG = 780
    /\ gui.scatteringStrength = rat[1, 10]
    /\ scatterCoefficients = updateCoefficients(gui)

\* C15: every material's uScatterCoefficients is made of the coefficients of
\* the compositor's current wavelengths and strength, none of them negative.
C15_CoefficientsCurrent ==
    \A i \in 1..Len(postProcessingMaterials) :
       \A c \in 1..3 :
          /\ postProcessingMaterials[i].uScatterCoefficients[c]
                = Coefficient(waveLenghts[c], scatteringStrength)
          /\ sign[postProcessingMaterials[i].uScatterCoefficients[c]] >= 0

\* the shader load has completed after an edit of the GUI: there are materials,
\* and the compositor's wavelengths and strength are not those of init, while
\* the planets still hold the radii of setup
C15_Witness ==
    /\ Len(postProcessingMaterials) >= 1
    /\ gui # <<>>
    /\ waveLenghts # <<700, 530, 440>>
    /\ scatteringStrength # float[1]
    /\ gui.planetRadius # postProcessingMaterials[1].uPlanetRadius

\* C16: every material's radii satisfy upAtmosphereRadius > uPlanetRadius > 0.
C16_RadiiOrdered ==
    \A i \in 1..Len(postProcessingMaterials) :
       /\ postProcessingMaterials[i].upAtmosphereRadius
            > postProcessingMaterials[i].uPlanetRadius
       /\ postProcessingMaterials[i].uPlanetRadius > 0

(***************************************************************************)
(* Part V: the file watcher, watch-files.js.  Time is counted in ms; a     *)
(* timer expires exactly debounceDelay after it was set, and the clock     *)
(* does not pass the expiry of a pending timer before that timer has run.  *)
(***************************************************************************)
\* the variables of the page, and what each other program leaves alone
pageVars == <<hasLoaded, inited, listening, dom, sunEntity, cameraPos, planets,
              depthRenderTarget, renderTarget, postProcessingMaterials, ortho,
              quadMaterial, fetchPending, uau, rTarget, image, phase, ticked,
              frameLog, lastRun, confVars, shaderCall>>
exceptWatcher == <<pageVars, animTrigger, teleport, anim>>
exceptTrigger == <<pageVars, watchVars, teleport, anim>>
exceptTeleport == <<pageVars, watchVars, animTrigger, anim>>
exceptAnim == <<pageVars, watchVars, animTrigger, teleport>>

MaxTime == 3000
MaxEvents == 3
MaxDepth == 2

debounceDelay == 1000

\* how far the clock advances in one step
Steps == {500, 1000}

\* a folder is the sequence of the names from watchDir down to it; the
\* folders of the model are a chain a, a/a, ... and one hidden folder
Chain(n) == [i \in 1..n |-> "a"]
Hidden == <<".git">>
Paths == {Chain(n) : n \in 0..MaxDepth} \cup {Hidden}

\* !item.startsWith(".") && item !== "node_modules", for every name of the path
isListed(path) == \A i \in 1..Len(path) : path[i] # ".git"

\* watchDirectory(dir): a watcher on dir and one on each of its sub-folders
\* that is not hidden; fs.watch is not recursive and readdirSync reads one level
watchDirectory(dir, tree) ==
    {dir} \cup {f \in tree : Len(f) = Len(dir) + 1 /\ isListed(f)
                               /\ \A i \in 1..Len(dir) : f[i] = dir[i]}

\* the script has run to its end: the first regenerateListing() was started
\* and watchDirectory(watchDir) has set the watchers
InitWatcher ==
    /\ clock = 0
    /\ \E n \in 0..MaxDepth, h \in BOOLEAN :
         folders = {Chain(k) : k \in 0..n} \cup (IF h THEN {Hidden} ELSE {})
    /\ watched = watchDirectory(<<>>, folders)
    /\ debounceTimer = 0
    /\ timers = {}
    /\ events = <<>>
    /\ regenerations = <<0>>
    /\ dirty = FALSE

\* scheduleRegeneration without the clearTimeout
scheduleWithoutClear(pending, handle, t) ==
    pending \cup {[id |-> handle, due |-> t + debounceDelay]}

\* scheduleRegeneration: the timer of debounceTimer is cleared, a new timer is
\* set; clearTimeout of a timer that has run, or of null, does nothing
scheduleRegeneration(pending, handle, t) ==
    {x \in pending : x.id # debounceTimer}
        \cup {[id |-> handle, due |-> t + debounceDelay]}

\* the callback of fs.watch for a file name that ends in .html
watchEvent ==
    /\ Len(events) < MaxEvents
    /\ clock + debounceDelay <= MaxTime
    /\ timers' = scheduleRegeneration(timers, Len(events) + 1, clock)
    /\ debounceTimer' = Len(events) + 1
    /\ events' = Append(events, clock)

\* an .html file is added to folder f, renamed in it or removed from it: the
\* system calls the callback of every watcher on f
changeHtml(f) ==
    /\ f \in folders
    /\ dirty' = (dirty \/ isListed(f))
    /\ IF f \in watched
         THEN watchEvent
         ELSE UNCHANGED <<timers, debounceTimer, events>>
    /\ UNCHANGED <<clock, folders, watched, regenerations>>
    /\ UNCHANGED exceptWatcher

\* a folder is created in an existing folder; the callback of a watcher on the
\* parent is called with the folder's name, which does not end in .html
mkdir(f) ==
    /\ f \in Paths \ folders
    /\ f # <<>>
    /\ SubSeq(f, 1, Len(f) - 1) \in folders
    /\ folders' = folders \cup {f}
    /\ UNCHANGED <<clock, watched, debounceTimer, timers, events, regenerations, dirty>>
    /\ UNCHANGED exceptWatcher

\* the timer expires: regenerateListing starts generate-listing.js, which
\* lists the HTML files of every listed folder at any depth
regenerateListing ==
    /\ \E x \in timers :
         /\ x.due <= clock
         /\ timers' = timers \ {x}
    /\ regenerations' = Append(regenerations, clock)
    /\ dirty' = FALSE
    /\ UNCHANGED <<clock, folders, watched, debounceTimer, events>>
    /\ UNCHANGED exceptWatcher

\* time passes, up to the expiry of the next timer
passTime(d) ==
    /\ clock + d <= MaxTime
    /\ \A x \in timers : clock + d <= x.due
    /\ clock' = clock + d
    /\ UNCHANGED <<folders, watched, debounceTimer, timers, events, regenerations, dirty>>
    /\ UNCHANGED exceptWatcher

InitWatch ==
    /\ IdlePage
    /\ InitWatcher
    /\ animTrigger = <<>>
    /\ teleport = <<>>
    /\ anim = <<>>

NextWatch ==
    \/ \E f \in Paths : changeHtml(f)
    \/ \E f \in Paths : mkdir(f)
    \/ regenerateListing
    \/ \E d \in Steps : passTime(d)

SpecWatch == InitWatch /\ [][NextWatch]_vars

\* a timer that is due runs, and time goes on
FairWatch ==
    /\ SpecWatch
    /\ WF_vars(regenerateListing)
    /\ WF_vars(\E d \in Steps : passTime(d))

\* event j is the last of its burst: no later event within debounceDelay of it
LastOfBurst(j) ==
    \A k \in 1..Len(events) :
        ~(events[j] < events[k] /\ events[k] <= events[j] + debounceDelay)

\* a regeneration after the first one starts debounceDelay after an event that
\* no event followed in between, and later than the regeneration before it
Debounced(i) ==
    /\ regenerations[i] > regenerations[i - 1]
    /\ \E j \in 1..Len(events) :
         /\ regenerations[i] = events[j] + debounceDelay
         /\ \A k \in 1..Len(events) :
              ~(events[j] < events[k] /\ events[k] < regenerations[i])

\* the regeneration of event j has been started or its timer is pending
Served(j) ==
    \/ \E i \in 2..Len(regenerations) : regenerations[i] = events[j] + debounceDelay
    \/ \E x \in timers : x.due = events[j] + debounceDelay

\* no regeneration was started after event j
Waiting(j) == \A i \in 1..Len(regenerations) : regenerations[i] <= events[j]

SomeEventWaiting == \E j \in 1..Len(events) : Waiting(j)

DebounceInvariant ==
    /\ Cardinality(timers) <= 1
    /\ \A i \in 2..Len(regenerations) : Debounced(i)
    /\ \A j \in 1..Len(events) : LastOfBurst(j) => Served(j)

\* C21: every HTML change event is followed by a regeneration; a burst of
\* events, each less than debounceDelay (1 s) after the one before, triggers
\* exactly one regeneration, started debounceDelay after the last event of the
\* burst; at most one debounce timer is pending at any time.
C21_Debounce ==
    /\ []DebounceInvariant
    /\ (SomeEventWaiting ~> ~SomeEventWaiting)

\* a burst of two events 500 ms apart has been answered by one regeneration,
\* 1 s after the second event
C21_Witness ==
    /\ Len(events) = 2
    /\ events[1] < events[2]
    /\ events[2] < events[1] + debounceDelay
    /\ Len(regenerations) = 2
    /\ regenerations[2] = events[2] + debounceDelay

\* C22: adding, renaming or removing an .html file in any folder that is not
\* hidden, at any depth, folders created after the start of the watcher
\* included, triggers a regeneration.
C22_AllFoldersWatched == dirty ~> ~dirty

(***************************************************************************)
(* Part VI: the animation-trigger component, animation-trigger.js, and     *)
(* its build with focus and blur clips and without hitbox, part_005.       *)
(* A clip is its name, "" is no clip.  The strings of the schema that are  *)
(* lists (priority, clips) are the sequences of their comma-separated      *)
(* pieces.                                                                 *)
(***************************************************************************)
MaxLoads == 2
MaxPending == 2

\* String.prototype.trim on the pieces the configurations use
trim(s) ==
    CASE s = " hover" -> "hover"
      [] s = " Run" -> "Run"
      [] s = " " -> ""
      [] OTHER -> s

\* the defaults of the schema, on an element with a model
DefaultData ==
    [idle |-> "", hover |-> "", click |-> "", proximity |-> "", trigger |-> "",
     triggerEnd |-> "", focus |-> "", blur |-> "", clips |-> <<>>,
     sequence |-> FALSE, randomize |-> FALSE, loop |-> "repeat",
     triggerEvent |-> "", triggerEndEvent |-> "", clickOnce |-> TRUE,
     makeClickable |-> TRUE,
     priority |-> <<"proximity", "trigger", "click", "hover", "idle">>,
     enabled |-> TRUE, autoHitbox |-> TRUE]

\* the attribute values of the model: every trigger with the default
\* priority; the reverse priority without clickOnce; a sequence and a random
\* clip list without idle clip; a hover clip alone on an element without
\* model; the build of part_005 with focus and blur clips
AllTriggers ==
    [DefaultData EXCEPT !.idle = "Idle", !.hover = "Wave", !.click = "Jump",
                        !.proximity = "Attack", !.trigger = "Action",
                        !.triggerEvent = "activate", !.triggerEndEvent = "deactivate"]
Reversed ==
    [DefaultData EXCEPT !.idle = "Idle", !.hover = "Wave", !.click = "Jump",
                        !.proximity = "Attack", !.clickOnce = FALSE,
                        !.priority = <<"idle", " hover", "click", "proximity">>]
Sequenced ==
    [DefaultData EXCEPT !.hover = "Wave", !.clips = <<"Walk", " Run", " ">>,
                        !.sequence = TRUE]
Randomized ==
    [DefaultData EXCEPT !.idle = "Idle", !.click = "Jump",
                        !.clips = <<"Walk", " Run">>, !.randomize = TRUE]
HoverOnly ==
    [DefaultData EXCEPT !.hover = "Wave", !.triggerEnd = "End",
                        !.triggerEndEvent = "deactivate"]
Focused ==
    [DefaultData EXCEPT !.idle = "Idle", !.hover = "Wave", !.focus = "Alert",
                        !.blur = "Sleep", !.autoHitbox = FALSE,
                        !.priority = <<"focus", "hover", "idle">>]

Builds == {"animation-trigger.js", "part_005"}

Mounts ==
    {[data |-> d, build |-> "animation-trigger.js", hasModel |-> TRUE] :
        d \in {AllTriggers, Reversed, Sequenced, Randomized}}
    \cup {[data |-> HoverOnly, build |-> "animation-trigger.js", hasModel |-> FALSE],
          [data |-> Focused, build |-> "part_005", hasModel |-> TRUE]}

NoFlags ==
    [hover |-> FALSE, proximity |-> FALSE, trigger |-> FALSE, click |-> FALSE,
     focus |-> FALSE]

NoMixer == [clip |-> "", loop |-> ""]

\* the meshes of the model: their raycast method and their _originalRaycast
\* property; NoMesh when el.getObject3D("mesh") is undefined
FreshMesh == [raycast |-> "original", _originalRaycast |-> "none"]
NoMesh == [raycast |-> "none", _originalRaycast |-> "none"]

NoUpdate ==
    [states |-> NoFlags, from |-> "", listClip |-> "", newState |-> "", clipToPlay |-> ""]

\* playAnimation(clipName, loopOverride)
playAnimation(c, clipName, loopOverride) ==
    IF clipName = "" THEN c
    ELSE [c EXCEPT !.currentClip = clipName,
                   !.mixer = [clip |-> clipName,
                              loop |-> IF loopOverride = "" THEN c.data.loop
                                       ELSE loopOverride]]

\* a switch whose cases do not look at the flags
switchCaseUnflagged(c, state) ==
    IF state \in {"proximity", "trigger", "click", "hover"} /\ c.data[state] # ""
      THEN [state |-> state, clip |-> c.data[state]]
      ELSE [state |-> "idle", clip |-> c.data.idle]

\* the body of the switch for one entry of the priority list: the state and
\* the clip it selects, state "idle" when it selects nothing
switchCase(c, state) ==
    CASE state = "proximity" /\ c.states.proximity /\ c.data.proximity # ""
           -> [state |-> "proximity", clip |-> c.data.proximity]
      [] state = "trigger" /\ c.states.trigger /\ c.data.trigger # ""
           -> [state |-> "trigger", clip |-> c.data.trigger]
      [] state = "click" /\ c.states.click /\ c.data.click # ""
           -> [state |-> "click", clip |-> c.data.click]
      [] state = "hover" /\ c.states.hover /\ c.data.hover # ""
           -> [state |-> "hover", clip |-> c.data.hover]
      [] state = "focus" /\ c.build = "part_005" /\ c.states.focus /\ c.data.focus # ""
           -> [state |-> "focus", clip |-> c.data.focus]
      [] state = "focus" /\ c.build = "part_005" /\ ~c.states.focus
                         /\ c.data.blur # "" /\ c.currentState = "focus"
           -> [state |-> "blur", clip |-> c.data.blur]
      [] OTHER -> [state |-> "idle", clip |-> c.data.idle]

\* the for loop over the priorities from entry i on, with its break
RECURSIVE forPriorities(_, _)
forPriorities(c, i) ==
    IF i > Len(c.data.priority) THEN [state |-> "idle", clip |-> c.data.idle]
    ELSE LET found == switchCase(c, trim(c.data.priority[i]))
         IN IF found.state # "idle" THEN found ELSE forPriorities(c, i + 1)

\* this.clipList[this.currentClipIndex], "" for an empty list
listClip(c) == IF Len(c.clipList) > 0 THEN c.clipList[c.currentClipIndex + 1] ELSE ""

\* newState and clipToPlay at the end of updateAnimationState
selected(c) ==
    LET found == forPriorities(c, 1)
    IN IF found.state = "idle" /\ Len(c.clipList) > 0 /\ c.data.idle = ""
         THEN [state |-> "idle", clip |-> listClip(c)]
         ELSE found

\* updateAnimationState; lastUpdate records the run: the flags, the state and
\* the current clip of the clip list at its entry, newState and clipToPlay at
\* its end
updateAnimationState(c) ==
    IF ~c.data.enabled THEN c
    ELSE LET sel == selected(c)
             ran == [c EXCEPT !.lastUpdate = [states |-> c.states,
                                              from |-> c.currentState,
                                              listClip |-> listClip(c),
                                              newState |-> sel.state,
                                              clipToPlay |-> sel.clip]]
         IN IF sel.clip # "" /\ sel.clip # c.currentClip
              THEN playAnimation([ran EXCEPT !.currentState = sel.state], sel.clip, "")
              ELSE ran

\* playAnimationOnce(clipName, callback): the callback is named by its caller
playAnimationOnce(c, clipName, callback) ==
    [playAnimation(c, clipName, "once") EXCEPT !.pendingOnce = Append(@, callback)]

\* parseClipList
parseClipList(c) ==
    IF c.data.clips = <<>> THEN c
    ELSE [c EXCEPT !.clipList =
            SelectSeq([i \in 1..Len(c.data.clips) |-> trim(c.data.clips[i])],
                      LAMBDA x : x # "")]

\* excludeMeshFromRaycast(mesh)
excludeMeshFromRaycast(c) ==
    [c EXCEPT !.mesh = [raycast |-> "noop", _originalRaycast |-> c.mesh.raycast],
              !.clickable = FALSE]

\* createHitbox: the new a-box element is named by the number of the load
createHitbox(c) ==
    IF c.mesh = NoMesh THEN c
    ELSE [excludeMeshFromRaycast(c) EXCEPT !.hitboxEl = c.loads + 1,
                                            !.hitboxes = @ \cup {c.loads + 1}]

\* restoreMeshRaycast
restoreMeshRaycast(c) ==
    IF c.mesh = NoMesh THEN c
    ELSE [c EXCEPT !.mesh = IF c.mesh._originalRaycast # "none"
                              THEN [raycast |-> c.mesh._originalRaycast,
                                    _originalRaycast |-> "none"]
                              ELSE c.mesh,
                   !.clickable = c.clickable \/ c.data.makeClickable]

\* removeHitbox
removeHitbox(c) ==
    IF c.hitboxEl # 0 /\ c.hitboxEl \in c.hitboxes
      THEN restoreMeshRaycast([c EXCEPT !.hitboxes = @ \ {c.hitboxEl}, !.hitboxEl = 0])
      ELSE c

\* scheduleNextAutoSwitch
scheduleNextAutoSwitch(c) ==
    [c EXCEPT !.autoSwitchTimeout =
        (c.data.sequence \/ c.data.randomize) /\ Len(c.clipList) > 0]

\* onModelLoaded
onModelLoaded(c) ==
    LET clickable == [c EXCEPT !.clickable = @ \/ c.data.makeClickable]
        boxed == IF c.build = "animation-trigger.js" /\ c.data.autoHitbox
                   THEN createHitbox(clickable) ELSE clickable
        parsed == [parseClipList(boxed) EXCEPT !.listening = TRUE,
                                               !.pendingInitial = @ + 1,
                                               !.loads = @ + 1]
    IN IF (c.data.sequence \/ c.data.randomize) /\ Len(parsed.clipList) > 0
         THEN scheduleNextAutoSwitch(parsed) ELSE parsed

\* init on an element with the attribute values of mount
triggerInit(mount) ==
    LET c == [data |-> mount.data, build |-> mount.build, hasModel |-> mount.hasModel,
              currentClip |-> "", currentState |-> "idle", states |-> NoFlags,
              clipList |-> <<>>, currentClipIndex |-> 0, autoSwitchTimeout |-> FALSE,
              hitboxEl |-> 0, mixer |-> NoMixer, listening |-> FALSE,
              clickable |-> FALSE, hitboxes |-> {}, mesh |-> NoMesh,
              pendingOnce |-> <<>>, pendingInitial |-> 0, loads |-> 0,
              removed |-> FALSE, lastUpdate |-> NoUpdate]
    IN IF mount.hasModel THEN c ELSE onModelLoaded(c)

\* the element emits model-loaded: for the model it had or for a new one
modelLoaded(sameMesh) ==
    /\ animTrigger.hasModel
    /\ animTrigger.loads < MaxLoads
    /\ sameMesh => animTrigger.mesh # NoMesh
    /\ animTrigger' =
         onModelLoaded(IF sameMesh THEN animTrigger
                       ELSE [animTrigger EXCEPT !.mesh = FreshMesh])
    /\ UNCHANGED exceptTrigger

\* the timeout of onModelLoaded: playInitialAnimation
playInitialAnimation ==
    /\ animTrigger.pendingInitial > 0
    /\ LET c == [animTrigger EXCEPT !.pendingInitial = @ - 1]
           clipToPlay == IF c.data.idle = "" /\ Len(c.clipList) > 0
                           THEN c.clipList[1] ELSE c.data.idle
       IN animTrigger' = IF clipToPlay # ""
                           THEN playAnimation([c EXCEPT !.currentClip = ""], clipToPlay, "")
                           ELSE c
    /\ UNCHANGED exceptTrigger

onMouseEnter ==
    /\ animTrigger.listening /\ animTrigger.data.hover # ""
    /\ animTrigger' = IF ~animTrigger.data.enabled THEN animTrigger
                      ELSE updateAnimationState([animTrigger EXCEPT !.states.hover = TRUE])
    /\ UNCHANGED exceptTrigger

onMouseLeave ==
    /\ animTrigger.listening /\ animTrigger.data.hover # ""
    /\ animTrigger' = IF ~animTrigger.data.enabled THEN animTrigger
                      ELSE updateAnimationState([animTrigger EXCEPT !.states.hover = FALSE])
    /\ UNCHANGED exceptTrigger

\* onClick as a function of the component
clicked(c) ==
    IF ~c.data.enabled THEN c
    ELSE LET set == [c EXCEPT !.states.click = TRUE]
         IN IF c.data.clickOnce THEN playAnimationOnce(set, c.data.click, "click")
            ELSE updateAnimationState(set)

onClick ==
    /\ animTrigger.listening /\ animTrigger.data.click # ""
    /\ Len(animTrigger.pendingOnce) < MaxPending
    /\ animTrigger' = clicked(animTrigger)
    /\ UNCHANGED exceptTrigger

onFocus ==
    /\ animTrigger.build = "part_005" /\ animTrigger.listening
    /\ animTrigger.data.focus # "" \/ animTrigger.data.blur # ""
    /\ animTrigger' = IF ~animTrigger.data.enabled THEN animTrigger
                      ELSE updateAnimationState([animTrigger EXCEPT !.states.focus = TRUE])
    /\ UNCHANGED exceptTrigger

onBlur ==
    /\ animTrigger.build = "part_005" /\ animTrigger.listening
    /\ animTrigger.data.focus # "" \/ animTrigger.data.blur # ""
    /\ animTrigger' = IF ~animTrigger.data.enabled THEN animTrigger
                      ELSE updateAnimationState([animTrigger EXCEPT !.states.focus = FALSE])
    /\ UNCHANGED exceptTrigger

onTrigger ==
    /\ animTrigger.listening
    /\ animTrigger.data.triggerEvent # "" /\ animTrigger.data.trigger # ""
    /\ animTrigger' = IF ~animTrigger.data.enabled THEN animTrigger
                      ELSE updateAnimationState([animTrigger EXCEPT !.states.trigger = TRUE])
    /\ UNCHANGED exceptTrigger

onTriggerEnd ==
    /\ animTrigger.listening /\ animTrigger.data.triggerEndEvent # ""
    /\ Len(animTrigger.pendingOnce) < MaxPending
    /\ animTrigger' =
         IF ~animTrigger.data.enabled THEN animTrigger
         ELSE LET c == [animTrigger EXCEPT !.states.trigger = FALSE]
              IN IF c.data.triggerEnd # ""
                   THEN playAnimationOnce(c, c.data.triggerEnd, "triggerEnd")
                   ELSE updateAnimationState(c)
    /\ UNCHANGED exceptTrigger

\* the timeout of playAnimationOnce expires: timeouts of one clip expire in the
\* order in which they were set
onceTimeout(k) ==
    /\ k \in 1..Len(animTrigger.pendingOnce)
    /\ \A j \in 1..(k - 1) : animTrigger.pendingOnce[j] # animTrigger.pendingOnce[k]
    /\ LET callback == animTrigger.pendingOnce[k]
           c == [animTrigger EXCEPT !.pendingOnce =
                    [i \in 1..(Len(@) - 1) |-> IF i < k THEN @[i] ELSE @[i + 1]]]
       IN animTrigger' = IF callback = "click"
                           THEN updateAnimationState([c EXCEPT !.states.click = FALSE])
                           ELSE updateAnimationState(c)
    /\ UNCHANGED exceptTrigger

\* tick when the throttle lets it through; inProximity: distance < proximityDistance
triggerTick(inProximity) ==
    /\ ~animTrigger.removed
    /\ animTrigger' =
         IF ~animTrigger.data.enabled \/ animTrigger.data.proximity = ""
           THEN animTrigger
           ELSE LET c == [animTrigger EXCEPT !.states.proximity = inProximity]
                IN IF inProximity # animTrigger.states.proximity
                     THEN updateAnimationState(c) ELSE c
    /\ UNCHANGED exceptTrigger

\* nextAutoClip; random: Math.floor(Math.random() * this.clipList.length)
nextAutoClip(c, random) ==
    IF Len(c.clipList) = 0 THEN c
    ELSE LET n == Len(c.clipList)
             index == IF c.data.randomize
                        THEN IF n > 1 /\ random = c.currentClipIndex
                               THEN (random + 1) % n ELSE random
                        ELSE IF c.data.sequence THEN (c.currentClipIndex + 1) % n
                        ELSE c.currentClipIndex
         IN playAnimation([c EXCEPT !.currentClipIndex = index], c.clipList[index + 1], "")

\* the timeout of scheduleNextAutoSwitch expires
autoSwitch(random) ==
    /\ animTrigger.autoSwitchTimeout
    /\ random < Len(animTrigger.clipList)
    /\ animTrigger' = scheduleNextAutoSwitch(nextAutoClip(animTrigger, random))
    /\ UNCHANGED exceptTrigger

setEnabled(enabled) ==
    /\ ~animTrigger.removed
    /\ LET c == [animTrigger EXCEPT !.data.enabled = enabled]
       IN animTrigger' = IF enabled THEN updateAnimationState(c) ELSE c
    /\ UNCHANGED exceptTrigger

\* reset as a function of the component
resetTo(c) ==
    updateAnimationState([c EXCEPT !.states = NoFlags, !.currentClipIndex = 0])

triggerReset ==
    /\ ~animTrigger.removed
    /\ animTrigger' = resetTo(animTrigger)
    /\ UNCHANGED exceptTrigger

\* remove as a function of the component
removedFrom(c) ==
    LET unboxed == IF c.build = "animation-trigger.js" THEN removeHitbox(c) ELSE c
    IN [unboxed EXCEPT !.listening = FALSE, !.autoSwitchTimeout = FALSE,
                       !.removed = TRUE]

triggerRemove ==
    /\ ~animTrigger.removed
    /\ animTrigger' = removedFrom(animTrigger)
    /\ UNCHANGED exceptTrigger

InitTrigger ==
    /\ IdlePage
    /\ IdleWatcher
    /\ teleport = <<>>
    /\ anim = <<>>
    /\ animTrigger \in {triggerInit(mount) : mount \in Mounts}

NextTrigger ==
    \/ \E sameMesh \in BOOLEAN : modelLoaded(sameMesh)
    \/ playInitialAnimation
    \/ onMouseEnter
    \/ onMouseLeave
    \/ onClick
    \/ onFocus
    \/ onBlur
    \/ onTrigger
    \/ onTriggerEnd
    \/ \E k \in 1..MaxPending : onceTimeout(k)
    \/ \E inProximity \in BOOLEAN : triggerTick(inProximity)
    \/ \E random \in 0..1 : autoSwitch(random)
    \/ \E enabled \in BOOLEAN : setEnabled(enabled)
    \/ triggerReset
    \/ triggerRemove

SpecTrigger == InitTrigger /\ [][NextTrigger]_vars

TriggerStates == {"proximity", "trigger", "click", "hover", "focus"}

\* the priority list as updateAnimationState reads it
Priorities == [i \in 1..Len(animTrigger.data.priority) |-> trim(animTrigger.data.priority[i])]

\* entry i of the priority list names a trigger whose flag was set at the
\* entry of the last run and whose clip is configured
ActiveEntry(i) ==
    /\ Priorities[i] \in TriggerStates
    /\ animTrigger.lastUpdate.states[Priorities[i]]
    /\ animTrigger.data[Priorities[i]] # ""

\* entry i is the focus entry, the focus flag was not set, a blur clip is
\* configured and the state was "focus" at the entry of the last run
BlurEntry(i) ==
    /\ Priorities[i] = "focus"
    /\ animTrigger.build = "part_005"
    /\ ~animTrigger.lastUpdate.states.focus
    /\ animTrigger.data.blur # ""
    /\ animTrigger.lastUpdate.from = "focus"

First(S) == CHOOSE i \in S : \A j \in S : i <= j

\* idle: the idle clip, or the current clip of the clip list when idle is unset
IdleSelection ==
    [state |-> "idle",
     clip |-> IF animTrigger.data.idle = "" /\ animTrigger.lastUpdate.listClip # ""
                THEN animTrigger.lastUpdate.listClip
                ELSE animTrigger.data.idle]

FirstActive ==
    LET active == {i \in 1..Len(Priorities) : ActiveEntry(i)}
    IN IF active = {} THEN IdleSelection
       ELSE [state |-> Priorities[First(active)],
             clip |-> animTrigger.data[Priorities[First(active)]]]

FirstActiveOrBlur ==
    LET entries == {i \in 1..Len(Priorities) : ActiveEntry(i) \/ BlurEntry(i)}
    IN IF entries = {} THEN IdleSelection
       ELSE IF ActiveEntry(First(entries))
              THEN [state |-> Priorities[First(entries)],
                    clip |-> animTrigger.data[Priorities[First(entries)]]]
              ELSE [state |-> "blur", clip |-> animTrigger.data.blur]

LastSelection ==
    [state |-> animTrigger.lastUpdate.newState, clip |-> animTrigger.lastUpdate.clipToPlay]

\* C23 as stated: whenever updateAnimationState has run while enabled, the
\* state it selected is the first entry of the priority list whose trigger
\* flag is set and whose clip is configured, idle (with the idle clip, or the
\* current clip of the clip list when idle is unset) if none is.
C23_FirstActiveSelected ==
    animTrigger.lastUpdate # NoUpdate => LastSelection = FirstActive

\* C23, amended: the same, and the focus entry of part_005 selects the state
\* "blur" with the blur clip when its flag is not set, a blur clip is
\* configured and the current state is "focus"; no entry of the priority
\* list that is active stands before the entry of the selected trigger.
C23_PrioritySelects ==
    animTrigger.lastUpdate # NoUpdate =>
        /\ LastSelection = FirstActiveOrBlur
        /\ \A i \in 1..Len(Priorities) :
             ActiveEntry(i) /\ LastSelection.state # "blur" =>
                \E j \in 1..i : Priorities[j] = LastSelection.state

\* hover and proximity are both set and the reverse priority list has
\* selected hover
C23_Witness ==
    /\ animTrigger.lastUpdate.states.hover
    /\ animTrigger.lastUpdate.states.proximity
    /\ animTrigger.lastUpdate.newState = "hover"
    /\ animTrigger.currentClip = "Wave"

\* the timeout of a playAnimationOnce has expired in this step
OnceTimeoutStep == Len(animTrigger'.pendingOnce) < Len(animTrigger.pendingOnce)

ClickPending(c) == \E k \in 1..Len(c.pendingOnce) : c.pendingOnce[k] = "click"

\* C24: with clickOnce, the click flag stays set until the duration of the
\* most recent click's clip has elapsed, for every sequence of clicks: the
\* expiry of a timeout leaves the flag set while the timeout of a later click
\* is pending.
C24_ClickOutlastsClip ==
    [][(OnceTimeoutStep /\ animTrigger.states.click /\ ClickPending(animTrigger'))
          => animTrigger'.states.click]_vars

\* a handler of an event of the element, the tick, or a timer of the component
EventOrTimerStep ==
    \/ onMouseEnter
    \/ onMouseLeave
    \/ onClick
    \/ onTrigger
    \/ onTriggerEnd
    \/ \E inProximity \in BOOLEAN : triggerTick(inProximity)
    \/ \E k \in 1..MaxPending : onceTimeout(k)
    \/ \E random \in 0..1 : autoSwitch(random)

\* C25: while the component is disabled no event and no timer of the
\* component changes the trigger flags or the playing clip; the auto-switch
\* timer does not switch clips.
C25_DisabledIsInert ==
    [][(~animTrigger.data.enabled /\ EventOrTimerStep) =>
          /\ animTrigger'.states = animTrigger.states
          /\ animTrigger'.currentClip = animTrigger.currentClip
          /\ animTrigger'.mixer = animTrigger.mixer]_vars

\* the default idle state: no flag set, clip index 0, state "idle", and the
\* idle clip, or the first clip of the clip list when idle is unset, current
DefaultIdle(c) ==
    /\ c.states = NoFlags
    /\ c.currentClipIndex = 0
    /\ c.currentState = "idle"
    /\ c.data.idle # "" => c.currentClip = c.data.idle
    /\ c.data.idle = "" /\ Len(c.clipList) > 0 => c.currentClip = c.clipList[1]

\* C26: from any reachable state, after reset() every trigger flag is false,
\* the clip index is 0, currentState is "idle" and the current clip is the
\* idle clip (the first clip of the clip list when idle is unset).
C26_ResetToIdle == [][triggerReset => DefaultIdle(animTrigger')]_vars

HitboxEnabled(c) ==
    /\ c.build = "animation-trigger.js"
    /\ c.data.autoHitbox
    /\ c.loads > 0
    /\ c.mesh # NoMesh
    /\ ~c.removed

\* C27: while the hitbox is enabled the meshes of the model are excluded from
\* raycasting and exactly one hitbox element exists under the entity; after
\* remove() no hitbox element remains and every mesh has its original raycast
\* function back, for any number of model-loaded events before remove.
C27_HitboxRoundTrip ==
    /\ [](HitboxEnabled(animTrigger) =>
            /\ animTrigger.mesh.raycast = "noop"
            /\ Cardinality(animTrigger.hitboxes) = 1)
    /\ [][triggerRemove =>
            /\ animTrigger'.hitboxes = {}
            /\ animTrigger'.mesh # NoMesh => animTrigger'.mesh.raycast = "original"]_vars

(***************************************************************************)
(* Part VII: a-cursor-teleport, a-cursor-navigation.js (v1.2) and part_006 *)
(* (v2.0).  The ray of the cursor crosses at most two meshes, mesh 1       *)
(* before mesh 2; the ring of the indicator is not on the ray.  The mouse  *)
(* goes down at the origin of the canvas.                                  *)
(***************************************************************************)
MeshIds == {1, 2}

\* where the mouse moves to, in pixels from the place it went down
Points == {<<0, 0>>, <<6, 0>>, <<6, 6>>}

\* the values of dragThreshold: the default, and one set later
Thresholds == {8, 4}

\* a mesh: it is in the scene graph, its visible flag, its userData marks and
\* the angle in degrees of its surface to the up vector
NearMeshes ==
    [inScene : BOOLEAN, visible : {TRUE}, isNavmesh : BOOLEAN,
     raycastExclude : BOOLEAN, angle : {0}]
FarMeshes ==
    [inScene : {TRUE}, visible : {TRUE}, isNavmesh : {TRUE},
     raycastExclude : {FALSE}, angle : {0, 60}]

NoClick == [clicked |-> FALSE, vr |-> FALSE, exceeded |-> FALSE, nearest |-> 0, hit |-> 0]

\* the component after init, with the scene loaded and the cursor ready;
\* landingMaxAngle is 45, the default of v1.2
teleportInit(build, near, far) ==
    [build |-> build,
     data |-> [landingMaxAngle |-> 45, dragThreshold |-> 8],
     threshold |-> 8,
     isVR |-> FALSE, isDragging |-> FALSE, transitioning |-> FALSE,
     started |-> FALSE, indicator |-> FALSE,
     navmeshCache |-> {}, navmeshCacheDirty |-> TRUE,
     meshes |-> <<near, far>>,
     start |-> <<>>, pendingReset |-> 0, phase |-> "idle", moved |-> <<0, 0>>,
     lastClick |-> NoClick]

\* Math.hypot(dx, dy) > threshold
hypotExceeds(dx, dy, threshold) == dx * dx + dy * dy > threshold * threshold

\* the traversal of the scene: the meshes that are visible and not marked
\* raycastExclude
collectMeshes(c) ==
    {i \in MeshIds : c.meshes[i].inScene /\ c.meshes[i].visible
                       /\ ~c.meshes[i].raycastExclude}

\* _updateNavmeshCache of part_006
updateNavmeshCache(c) ==
    IF ~c.navmeshCacheDirty THEN c
    ELSE [c EXCEPT !.navmeshCache = collectMeshes(c), !.navmeshCacheDirty = FALSE]

\* the meshes given to raycaster.intersectObjects: collected at the call in
\* v1.2, the cache of part_006 (after _updateNavmeshCache)
raycastList(c) ==
    IF c.build = "part_006" THEN updateNavmeshCache(c).navmeshCache
    ELSE collectMeshes(c)

\* hits[0] of the list, then the tests of the navmesh mark and of the angle:
\* the mesh to land on, 0 for null
validHit(c, list) ==
    IF list = {} THEN 0
    ELSE LET hit == CHOOSE i \in list : \A j \in list : i <= j
         IN IF ~c.meshes[hit].isNavmesh \/ c.meshes[hit].angle > c.data.landingMaxAngle
              THEN 0 ELSE hit

\* getValidHit: the component after the call (the cache of part_006)
afterGetValidHit(c) == IF c.build = "part_006" THEN updateNavmeshCache(c) ELSE c

getValidHit(c) == validHit(c, raycastList(c))

\* teleportTo
teleportTo(c) == [c EXCEPT !.transitioning = TRUE, !.started = TRUE]

\* handleClick / _handleClick
handleClick(c) ==
    IF c.isDragging /\ ~c.isVR THEN c
    ELSE IF getValidHit(c) # 0 THEN teleportTo(afterGetValidHit(c))
         ELSE afterGetValidHit(c)

\* the threshold that onMouseMove compares with: data.dragThreshold in v1.2,
\* the constant that _setupDragDetection took from it in part_006
dragThresholdOf(c) == IF c.build = "part_006" THEN c.threshold ELSE c.data.dragThreshold

onMouseDown ==
    /\ teleport.phase = "idle" /\ teleport.pendingReset = 0
    /\ teleport' = [teleport EXCEPT !.start = <<0, 0>>, !.isDragging = FALSE,
                                    !.phase = "down", !.moved = <<0, 0>>]
    /\ UNCHANGED exceptTeleport

onMouseMove(p) ==
    /\ teleport.phase # "up"
    /\ teleport' =
         IF teleport.start = <<>> THEN teleport
         ELSE [teleport EXCEPT
                 !.isDragging = @ \/ hypotExceeds(p[1] - teleport.start[1],
                                                  p[2] - teleport.start[2],
                                                  dragThresholdOf(teleport)),
                 !.moved = IF p[1] + p[2] > @[1] + @[2] THEN p ELSE @]
    /\ UNCHANGED exceptTeleport

\* mouseup on the canvas; the cursor emits click in the same dispatch when it
\* is on an entity
onMouseUp(onEntity) ==
    /\ teleport.phase = "down"
    /\ teleport' = [teleport EXCEPT !.pendingReset = @ + 1, !.start = <<>>,
                                    !.phase = IF onEntity THEN "up" ELSE "idle"]
    /\ UNCHANGED exceptTeleport

\* the nearest of the meshes of the scene that are visible and not marked
\* raycast-exclude, 0 when the ray crosses none
Nearest(c) ==
    LET seen == {i \in MeshIds : c.meshes[i].inScene /\ c.meshes[i].visible
                                   /\ ~c.meshes[i].raycastExclude}
    IN IF seen = {} THEN 0 ELSE CHOOSE i \in seen : \A j \in seen : i <= j

\* the click of the cursor: after a mouseup, or from a controller in VR
cursorClick ==
    /\ teleport.phase = "up" \/ (teleport.isVR /\ teleport.phase = "idle")
    /\ teleport' =
         [handleClick([teleport EXCEPT !.started = FALSE]) EXCEPT
            !.phase = "idle",
            !.lastClick =
               [clicked |-> TRUE, vr |-> teleport.isVR,
                exceeded |-> hypotExceeds(teleport.moved[1], teleport.moved[2],
                                          teleport.data.dragThreshold),
                nearest |-> Nearest(teleport),
                hit |-> getValidHit(teleport)]]
    /\ UNCHANGED exceptTeleport

\* the timeout of onMouseUp: this.isDragging = false
deferredReset ==
    /\ teleport.pendingReset > 0 /\ teleport.phase # "up"
    /\ teleport' = [teleport EXCEPT !.isDragging = FALSE, !.pendingReset = @ - 1]
    /\ UNCHANGED exceptTeleport

enterVR ==
    /\ ~teleport.isVR
    /\ teleport' = [teleport EXCEPT !.isVR = TRUE]
    /\ UNCHANGED exceptTeleport

exitVR ==
    /\ teleport.isVR
    /\ teleport' = [teleport EXCEPT !.isVR = FALSE]
    /\ UNCHANGED exceptTeleport

\* tick: the indicator follows the valid hit; a transition goes on and, when
\* its progress has reached 1, ends
teleportTick(done) ==
    /\ teleport' =
         IF ~teleport.transitioning
           THEN [afterGetValidHit(teleport) EXCEPT !.indicator = getValidHit(teleport) # 0]
           ELSE [teleport EXCEPT !.transitioning = ~done]
    /\ UNCHANGED exceptTeleport

\* the model of mesh 1 has loaded: its meshes join the scene graph and the
\* components of its entity mark them; the document does not change
meshLoaded ==
    /\ ~teleport.meshes[1].inScene
    /\ teleport' = [teleport EXCEPT !.meshes[1].inScene = TRUE]
    /\ UNCHANGED exceptTeleport

\* the attribute raycast-exclude is set on the entity of mesh 1: the init of
\* the component marks its meshes; the list of children does not change
markExcluded ==
    /\ teleport.meshes[1].inScene /\ ~teleport.meshes[1].raycastExclude
    /\ teleport' = [teleport EXCEPT !.meshes[1].raycastExclude = TRUE]
    /\ UNCHANGED exceptTeleport

\* an element is added to the scene or removed from it: the MutationObserver
\* of part_006 marks the cache dirty
childListChanged ==
    /\ teleport.build = "part_006"
    /\ ~teleport.navmeshCacheDirty
    /\ teleport' = [teleport EXCEPT !.navmeshCacheDirty = TRUE]
    /\ UNCHANGED exceptTeleport

\* setAttribute("a-cursor-teleport", "dragThreshold", t): update() does not
\* look at it
setDragThreshold(t) ==
    /\ t # teleport.data.dragThreshold
    /\ teleport.phase = "idle"
    /\ teleport' = [teleport EXCEPT !.data.dragThreshold = t]
    /\ UNCHANGED exceptTeleport

TeleportBuilds == {"a-cursor-navigation.js", "part_006"}

InitTeleport ==
    /\ IdlePage
    /\ IdleWatcher
    /\ animTrigger = <<>>
    /\ anim = <<>>
    /\ teleport \in {teleportInit(b, near, far) :
                        b \in TeleportBuilds, near \in NearMeshes, far \in FarMeshes}

NextTeleport ==
    \/ onMouseDown
    \/ \E p \in Points : onMouseMove(p)
    \/ \E onEntity \in BOOLEAN : onMouseUp(onEntity)
    \/ cursorClick
    \/ deferredReset
    \/ enterVR
    \/ exitVR
    \/ \E done \in BOOLEAN : teleportTick(done)
    \/ meshLoaded
    \/ markExcluded
    \/ childListChanged
    \/ \E t \in Thresholds : setDragThreshold(t)

SpecTeleport == InitTeleport /\ [][NextTeleport]_vars

\* the mesh is marked navmesh and the angle of its surface to the up vector is
\* at most landingMaxAngle
Teleportable(i) ==
    /\ i # 0
    /\ teleport.meshes[i].isNavmesh
    /\ teleport.meshes[i].angle <= teleport.data.landingMaxAngle

\* C28: a cursor click starts a transition only if the nearest hit among the
\* visible meshes not marked raycast-exclude is a mesh marked navmesh whose
\* surface angle to the up vector is at most landingMaxAngle; the hit that the
\* click lands on is that nearest mesh, so that a raycast-exclude object never
\* blocks a teleport and a non-navmesh object in front of the navmesh always
\* blocks it
C28_OnlyOntoNavmesh ==
    (teleport # <<>> /\ teleport.lastClick.clicked) =>
        /\ teleport.started => Teleportable(teleport.lastClick.nearest)
        /\ teleport.lastClick.hit # 0 <=> Teleportable(teleport.lastClick.nearest)

\* C29: in desktop mode a click that follows a mouse movement of more than
\* dragThreshold pixels since mousedown does not teleport, and a click without
\* such a movement does (when the cursor is on a valid hit), in the event
\* order mousedown, mousemove*, mouseup, click, deferred reset; in VR a click
\* is never suppressed as a drag
C29_DragNotClick ==
    (teleport # <<>> /\ teleport.lastClick.clicked) =>
        /\ (~teleport.lastClick.vr /\ teleport.lastClick.exceeded) => ~teleport.started
        /\ (teleport.lastClick.vr \/ ~teleport.lastClick.exceeded)
              /\ teleport.lastClick.hit # 0 => teleport.started

(***************************************************************************)
(* Part VIII: the anim component of part_007.  The model of the entity     *)
(* loads once; the clip lists are not empty.  An action of a mixer is      *)
(* "idle" until play(), then "playing", and "finished" when the mixer has  *)
(* dispatched its finished event.                                          *)
(***************************************************************************)
MaxClicks == 3

\* the mixers that the component makes at most
MaxMixers == 6

\* the animations of the gltf model
ModelAnimations == {"Open", "Spin", "Turn"}

\* an element of the array that the parse of clips returns, for "Name" and
\* for "Name[loop=...]"
parsedClip(name, loop) == [name |-> name, loop |-> loop, reverse |-> FALSE]

\* the attributes of the pages: two clips, a list with a clip that the model
\* does not have, and a repeating clip
AnimData ==
    {[clips |-> <<parsedClip("Open", "once"), parsedClip("Spin", "once")>>,
      trigger |-> t, playMode |-> "consecutive", reverseOrder |-> r] :
         t \in {"toggle", "click", "load"}, r \in BOOLEAN}
    \cup
    {[clips |-> <<parsedClip("Open", "once"), parsedClip("Spin", "once")>>,
      trigger |-> "toggle", playMode |-> "simultaneous", reverseOrder |-> FALSE],
     [clips |-> <<parsedClip("Open", "once"), parsedClip("Gone", "once"),
                  parsedClip("Spin", "once")>>,
      trigger |-> "click", playMode |-> "consecutive", reverseOrder |-> FALSE],
     [clips |-> <<parsedClip("Turn", "loop")>>,
      trigger |-> "toggle", playMode |-> "consecutive", reverseOrder |-> FALSE]}

\* Array.prototype.reverse
reversed(s) == [i \in 1..Len(s) |-> s[Len(s) + 1 - i]]

\* orderedClips, and reverseClips, which is built the same way
orderedClips(data) == IF data.reverseOrder THEN reversed(data.clips) ELSE data.clips

\* the component after init, before model-loaded
animInit(data) ==
    [data |-> data, loaded |-> FALSE, handler |-> "none",
     animationPlaying |-> FALSE, currentClipIndex |-> 0,
     playingReverse |-> FALSE, isOddClick |-> FALSE,
     mixer |-> 0, mixers |-> <<>>, animating |-> FALSE, clicks |-> 0]

\* mixer.clipAction(animationClip) with the loop mode and the time scale set
clipAction(currentClip, backwards) ==
    [clip |-> currentClip.name,
     loop |-> IF currentClip.loop \in {"loop", "pingpong"} THEN currentClip.loop ELSE "once",
     timeScale |-> IF backwards THEN -1 ELSE 1,
     state |-> "idle"]

\* new THREE.AnimationMixer(self.model)
newMixer(kind, reverse) ==
    [kind |-> kind, actions |-> << >>, listeners |-> << >>,
     scheduled |-> FALSE, reverse |-> reverse]

RECURSIVE animPlayAnimation(_, _)

\* playAnimation(reverse) up to the return of the call: the timeout that
\* plays the action is left pending, the loop of animate is started
animPlayAnimation(c, reverse) ==
    IF c.animationPlaying \/ c.currentClipIndex >= Len(orderedClips(c.data)) THEN c
    ELSE LET currentClip == orderedClips(c.data)[c.currentClipIndex + 1]
             m == Len(c.mixers) + 1
             c1 == [c EXCEPT !.animationPlaying = TRUE,
                             !.mixers = Append(@, newMixer("consecutive", reverse)),
                             !.mixer = m]
         IN IF currentClip.name \notin ModelAnimations
              THEN animPlayAnimation([c1 EXCEPT !.currentClipIndex = @ + 1], reverse)
              ELSE [c1 EXCEPT
                      !.mixers[m].actions =
                          <<clipAction(currentClip,
                                       currentClip.reverse \/ reverse \/ c.playingReverse)>>,
                      !.mixers[m].scheduled = TRUE,
                      !.animating = TRUE]

\* playSimultaneousAnimations() up to the return of the call
playSimultaneousAnimations(c) ==
    IF c.animationPlaying THEN c
    ELSE LET Found(k) == k.name \in ModelAnimations
             found == SelectSeq(orderedClips(c.data), Found)
             m == Len(c.mixers) + 1
         IN [c EXCEPT
               !.animationPlaying = TRUE,
               !.mixers = Append(@,
                   [newMixer("simultaneous", FALSE) EXCEPT
                      !.actions = [i \in 1..Len(found) |->
                                     clipAction(found[i], found[i].reverse \/ c.playingReverse)],
                      !.scheduled = TRUE])]

\* the listener of the click event for trigger "toggle"
toggleClick(c) ==
    LET c1 == [c EXCEPT !.isOddClick = ~@]
    IN IF c1.isOddClick
         THEN LET c2 == [c1 EXCEPT !.playingReverse = FALSE, !.currentClipIndex = 0]
              IN IF c.data.playMode = "consecutive" THEN animPlayAnimation(c2, FALSE)
                 ELSE playSimultaneousAnimations(c2)
         ELSE LET c2 == [c1 EXCEPT !.playingReverse = TRUE]
              IN IF c.data.playMode = "consecutive"
                   THEN animPlayAnimation(
                          [c2 EXCEPT !.currentClipIndex = Len(orderedClips(c.data)) - 1], TRUE)
                   ELSE playSimultaneousAnimations(c2)

\* the listener of the click event of the default case
defaultClick(c) ==
    LET c2 == [c EXCEPT !.playingReverse = FALSE, !.currentClipIndex = 0]
    IN IF c.data.playMode = "consecutive" THEN animPlayAnimation(c2, FALSE)
       ELSE playSimultaneousAnimations(c2)

\* addEventListeners: the case "load" has no break and goes on into the case
\* "toggle"
addEventListeners(c) ==
    IF c.data.trigger = "load"
      THEN [playSimultaneousAnimations(c) EXCEPT !.handler = "toggle"]
    ELSE IF c.data.trigger = "toggle" THEN [c EXCEPT !.handler = "toggle"]
    ELSE [c EXCEPT !.handler = "click"]

\* the listener of model-loaded
animModelLoaded ==
    /\ ~anim.loaded
    /\ anim' = addEventListeners([anim EXCEPT !.loaded = TRUE])
    /\ UNCHANGED exceptAnim

\* a click on the element
animClick ==
    /\ anim.loaded
    /\ anim.clicks < MaxClicks
    /\ Len(anim.mixers) < MaxMixers
    /\ anim' = [(IF anim.handler = "toggle" THEN toggleClick(anim) ELSE defaultClick(anim))
                  EXCEPT !.clicks = @ + 1]
    /\ UNCHANGED exceptAnim

\* action.play() of every action of a mixer
played(actions) == [i \in 1..Len(actions) |-> [actions[i] EXCEPT !.state = "playing"]]

\* the callback of the setTimeout of delay seconds: it plays the actions and,
\* in playAnimation, adds the listener of finished to self.mixer
animTimeout(m) ==
    /\ anim.mixers[m].scheduled
    /\ LET c1 == [anim EXCEPT !.mixers[m].scheduled = FALSE,
                              !.mixers[m].actions = played(@)]
       IN anim' = IF anim.mixers[m].kind = "consecutive"
                    THEN [c1 EXCEPT !.mixers[c1.mixer].listeners =
                                        Append(@, anim.mixers[m].reverse)]
                    ELSE c1
    /\ UNCHANGED exceptAnim

\* the listener of finished that playAnimation(reverse) adds
onFinished(c, reverse) ==
    LET c1 == [c EXCEPT !.animationPlaying = FALSE,
                        !.currentClipIndex = IF ~reverse THEN @ + 1 ELSE @ - 1]
    IN IF c1.currentClipIndex >= 0 /\ c1.currentClipIndex < Len(orderedClips(c.data))
         THEN animPlayAnimation(c1, reverse)
         ELSE [c1 EXCEPT
                 !.currentClipIndex = IF reverse THEN Len(orderedClips(c.data)) - 1 ELSE 0,
                 !.playingReverse = FALSE]

RECURSIVE dispatchFinished(_, _)

\* the listeners of finished of a consecutive mixer, in the order of their
\* addition
dispatchFinished(c, listeners) ==
    IF listeners = << >> THEN c
    ELSE dispatchFinished(onFinished(c, Head(listeners)), Tail(listeners))

\* a frame in which mixer.update brings an action to its end: the loop of
\* animate of playAnimation updates self.mixer while animationPlaying, the
\* loop of playSimultaneousAnimations updates its mixer always
animFinished(m, a) ==
    /\ anim.mixers[m].actions[a].state = "playing"
    /\ anim.mixers[m].actions[a].loop = "once"
    /\ \/ anim.mixers[m].kind = "simultaneous"
       \/ m = anim.mixer /\ anim.animating /\ anim.animationPlaying
    /\ Len(anim.mixers) + Len(anim.mixers[m].listeners) <= MaxMixers
    /\ LET c1 == [anim EXCEPT !.mixers[m].actions[a].state = "finished"]
       IN anim' = IF anim.mixers[m].kind = "simultaneous"
                    THEN [c1 EXCEPT !.animationPlaying = FALSE]
                    ELSE dispatchFinished(c1, anim.mixers[m].listeners)
    /\ UNCHANGED exceptAnim

\* a frame in which animate finds animationPlaying false and returns without
\* another requestAnimationFrame
animateStops ==
    /\ anim.animating /\ ~anim.animationPlaying
    /\ anim' = [anim EXCEPT !.animating = FALSE]
    /\ UNCHANGED exceptAnim

InitAnim ==
    /\ IdlePage
    /\ IdleWatcher
    /\ animTrigger = <<>>
    /\ teleport = <<>>
    /\ anim \in {animInit(data) : data \in AnimData}

NextAnim ==
    \/ animModelLoaded
    \/ animClick
    \/ \E m \in 1..Len(anim.mixers) : animTimeout(m)
    \/ \E m \in 1..Len(anim.mixers) :
         \E a \in 1..Len(anim.mixers[m].actions) : animFinished(m, a)
    \/ animateStops

SpecAnim == InitAnim /\ [][NextAnim]_vars

\* the step is a click on an element with trigger "toggle"
ToggleClickStep == animClick /\ anim.data.trigger = "toggle"

\* the step has made a mixer whose actions all have the time scale
StartsPlay(timeScale) ==
    /\ Len(anim'.mixers) > Len(anim.mixers)
    /\ LET actions == anim'.mixers[Len(anim'.mixers)].actions
       IN /\ actions # << >>
          /\ \A i \in 1..Len(actions) : actions[i].timeScale = timeScale

\* C30: with trigger "toggle" the clicks alternate the play direction: the
\* first click, and every odd click after it, starts the clips forward, the
\* second click, and every even click, starts them in reverse, also when the
\* click arrives while an animation is still playing
C30_ToggleAlternates ==
    [][ToggleClickStep =>
          IF anim.clicks % 2 = 0 THEN StartsPlay(1) ELSE StartsPlay(-1)]_vars

\* the actions that have been played and have not finished
Playing ==
    {<<m, a>> \in (1..Len(anim.mixers)) \X (1..3) :
        /\ a <= Len(anim.mixers[m].actions)
        /\ anim.mixers[m].actions[a].state = "playing"}

\* the place of the clip in the list of the component
PlaceOf(name) ==
    CHOOSE k \in 1..Len(orderedClips(anim.data)) : orderedClips(anim.data)[k].name = name

\* an action of the clip at place k has finished in a mixer made before mixer m
FinishedBefore(k, m) ==
    \E n \in 1..(m - 1) : \E b \in 1..Len(anim.mixers[n].actions) :
        /\ PlaceOf(anim.mixers[n].actions[b].clip) = k
        /\ anim.mixers[n].actions[b].state = "finished"

\* every forward action that has been played is of the first clip, or of a
\* clip whose predecessor in the list has finished before
InListOrder ==
    \A m \in 1..Len(anim.mixers) : \A a \in 1..Len(anim.mixers[m].actions) :
        LET action == anim.mixers[m].actions[a]
        IN (action.state # "idle" /\ action.timeScale = 1 /\ PlaceOf(action.clip) > 1)
              => FinishedBefore(PlaceOf(action.clip) - 1, m)

\* C31: with playMode "consecutive" the clips play one after the other in list
\* order: at most one clip is playing at any time, and clip k+1 starts only
\* after clip k has finished, for every sequence of trigger events
C31_OneAfterTheOther ==
    (anim # <<>> /\ anim.data.playMode = "consecutive") =>
        /\ Cardinality(Playing) <= 1
        /\ InListOrder

\* an action waits for the timeout that plays it, or is playing
SomeActionToFinish ==
    \E m \in 1..Len(anim.mixers) : \E a \in 1..Len(anim.mixers[m].actions) :
        anim.mixers[m].actions[a].state \in {"idle", "playing"}

\* C32: consecutive playback skips a missing clip: when playAnimation has set
\* animationPlaying it has started an action, of the next clip when a clip of
\* the list is not in the model, so that the flag is cleared when that action
\* finishes and does not stay set forever
C32_SkipsMissingClip ==
    (anim # <<>> /\ anim.data.playMode = "consecutive" /\ anim.animationPlaying)
        => SomeActionToFinish

====
